---------------------------- MODULE Spec2Model ----------------------------
(***************************************************************************)
(* A model of the Xiangqi assistant (telesoho/tsxq):                       *)
(*   - the UCI engine session (class UCIEngine): process handle, pending   *)
(*     line buffer, start / send / quit, the stdout data handler, the      *)
(*     close handler and the grace timer armed by quit();                  *)
(*   - the game controller (React component App): authoritative FEN, move  *)
(*     history, the search requests it sends and the bestmove handler;     *)
(*   - the rules engine and move codec (lib/xiangqi.ts).                   *)
(* Text is modelled as sequences of one-character strings, so that         *)
(* splitting, trimming and chunking are computed, not assumed.             *)
(***************************************************************************)
EXTENDS Integers, Sequences, FiniteSets, TLC

(***************************************************************************)
(* Bounds of the model.                                                    *)
(***************************************************************************)
\* child processes the session may spawn in one run
MaxProcs == 3
\* grace timers that may be pending at once
MaxTimers == 1
\* moves the game history may hold
MaxMoves == 2
\* searches the engine may have pending
MaxSearches == 2
\* moves a game between two human players may hold
MaxPlies == 5
\* pieces on the boards passed to the rules library, beyond the boards of
\* one piece
MaxPieces == 2
\* pieces added to the start position in the positions passed to validateFen
MaxExtra == 1

VARIABLES
    \* ---- engine session (UCIEngine) ----
    process,    \* this.process: 0 is null, otherwise the pid of the child
    buffer,     \* this.buffer: the pending partial line
    procs,      \* the child processes spawned so far, indexed by pid
    \* ---- what the last step did, as its caller and its listeners see it ----
    call,       \* the session's method or handler that ran, with its argument
    emitted,    \* the events it emitted, in order
    written,    \* the bytes it wrote to a child's stdin, and to which child
    \* ---- game controller (App) ----
    app,        \* the component's state
    engine,     \* the engine program as the controller's peer
    \* ---- rules library (lib/xiangqi.ts) called on its own ----
    input,      \* the argument a caller passes
    output      \* what the functions called so far returned

sessionVars == <<process, buffer, procs, emitted, written>>

gameVars == <<app, engine>>

libVars == <<input, output>>

vars == <<process, buffer, procs, call, emitted, written, app, engine, input, output>>

(***************************************************************************)
(* Text helpers: JavaScript's split, trim, slice and join on sequences of  *)
(* characters.                                                             *)
(***************************************************************************)
\* the positions of the separator in s
SeparatorsIn(s, sep) == {i \in 1..Len(s) : s[i] = sep}

\* String.prototype.split(sep) for a one-character separator.
\* Here and below, an operator whose argument is used many times evaluates it
\* once: xArg is the argument and x, bound over {xArg}, its value.
Split(sArg, sep) ==
    CHOOSE result \in
        {
            LET pos(k) == IF k = 0 THEN 0
                          ELSE IF k = n + 1 THEN Len(s) + 1
                          ELSE CHOOSE i \in P : Cardinality({j \in P : j < i}) = k - 1
            IN  [k \in 1..(n + 1) |-> SubSeq(s, pos(k - 1) + 1, pos(k) - 1)]
        : s \in {sArg}, P \in {SeparatorsIn(sArg, sep)},
          n \in {Cardinality(SeparatorsIn(sArg, sep))}} : TRUE

WhiteSpace == {" ", "\n", "\r", "\t"}

RECURSIVE TrimLeft(_)
TrimLeft(s) ==
    IF s # <<>> /\ Head(s) \in WhiteSpace THEN TrimLeft(Tail(s)) ELSE s

RECURSIVE TrimRight(_)
TrimRight(s) ==
    IF s # <<>> /\ s[Len(s)] \in WhiteSpace
    THEN TrimRight(SubSeq(s, 1, Len(s) - 1)) ELSE s

\* String.prototype.trim()
Trim(s) == TrimRight(TrimLeft(s))

RECURSIVE JoinFrom(_, _, _)
JoinFrom(parts, i, sep) ==
    IF i > Len(parts) THEN <<>>
    ELSE IF i = Len(parts) THEN parts[i]
    ELSE parts[i] \o <<sep>> \o JoinFrom(parts, i + 1, sep)

\* parts.slice(i).join(sep), i counted from 1
SliceJoin(parts, i, sep) == JoinFrom(parts, i, sep)

\* the value of an array element or argument that is absent
Undefined == <<"undefined">>

\* parts[i] of a JavaScript array, i counted from 0
At(parts, i) == IF i + 1 \in 1..Len(parts) THEN parts[i + 1] ELSE Undefined

(***************************************************************************)
(* The protocol words the session compares against.                        *)
(***************************************************************************)
W_uci      == <<"u", "c", "i">>
W_uciok    == <<"u", "c", "i", "o", "k">>
W_isready  == <<"i", "s", "r", "e", "a", "d", "y">>
W_readyok  == <<"r", "e", "a", "d", "y", "o", "k">>
W_quit     == <<"q", "u", "i", "t">>
W_stop     == <<"s", "t", "o", "p">>
W_id       == <<"i", "d">>
W_option   == <<"o", "p", "t", "i", "o", "n">>
W_info     == <<"i", "n", "f", "o">>
W_bestmove == <<"b", "e", "s", "t", "m", "o", "v", "e">>
W_depth    == <<"d", "e", "p", "t", "h">>
W_score    == <<"s", "c", "o", "r", "e">>
W_pv       == <<"p", "v">>

(***************************************************************************)
(* UCIEngine.parseInfo and UCIEngine.parseLine.                            *)
(***************************************************************************)
Digits == {"0", "1", "2", "3", "4", "5", "6", "7", "8", "9"}

DigitVal(c) ==
    CASE c = "0" -> 0 [] c = "1" -> 1 [] c = "2" -> 2 [] c = "3" -> 3
      [] c = "4" -> 4 [] c = "5" -> 5 [] c = "6" -> 6 [] c = "7" -> 7
      [] c = "8" -> 8 [] c = "9" -> 9

\* JavaScript numbers as the parser produces them: an integer, NaN, or absent
Num(v) == [kind |-> "int", val |-> v]
NaN == [kind |-> "NaN", val |-> 0]
NoNum == [kind |-> "undefined", val |-> 0]

RECURSIVE DigitsPrefix(_, _, _)
\* the value of the longest prefix of digits of s, NaN when there is none
DigitsPrefix(s, acc, seen) ==
    IF s # <<>> /\ Head(s) \in Digits
    THEN DigitsPrefix(Tail(s), acc * 10 + DigitVal(Head(s)), TRUE)
    ELSE IF seen THEN Num(acc) ELSE NaN

\* parseInt(s): leading white space, an optional sign, then decimal digits
ParseInt(s) ==
    IF s = Undefined THEN NaN
    ELSE LET t == TrimLeft(s)
             neg == t # <<>> /\ Head(t) = "-"
             body == IF t # <<>> /\ Head(t) \in {"-", "+"} THEN Tail(t) ELSE t
             v == DigitsPrefix(body, 0, FALSE)
         IN  IF v = NaN THEN NaN ELSE IF neg THEN Num(0 - v.val) ELSE v

EmptyInfo ==
    [depth |-> NoNum, scoreType |-> Undefined,
     scoreValue |-> NoNum, pv |-> Undefined]

RECURSIVE ParseInfoPastPv(_, _, _)
\* the loop of parseInfo going on after the pv key
ParseInfoPastPv(parts, i, info) ==
    IF i >= Len(parts) THEN info
    ELSE LET key == At(parts, i)
             value == At(parts, i + 1)
             i1 == [info EXCEPT !.depth =
                        IF key = W_depth THEN ParseInt(value) ELSE @]
             i2 == IF key = W_score
                   THEN [i1 EXCEPT !.scoreType = value,
                                   !.scoreValue = ParseInt(At(parts, i + 2))]
                   ELSE i1
             i3 == IF key = W_pv
                   THEN [i2 EXCEPT !.pv = SliceJoin(parts, i + 2, " ")]
                   ELSE i2
             j  == IF key = W_score THEN i + 2 ELSE i
         IN  ParseInfoPastPv(parts, j + 1, i3)

RECURSIVE ParseInfoFrom(_, _, _)
\* the loop of parseInfo from index i (counted from 0)
ParseInfoFrom(parts, i, info) ==
    IF i >= Len(parts) THEN info
    ELSE LET key == At(parts, i)
             value == At(parts, i + 1)
             i1 == [info EXCEPT !.depth =
                        IF key = W_depth THEN ParseInt(value) ELSE @]
             i2 == IF key = W_score
                   THEN [i1 EXCEPT !.scoreType = value,
                                   !.scoreValue = ParseInt(At(parts, i + 2))]
                   ELSE i1
             j  == IF key = W_score THEN i + 2 ELSE i
         IN  IF key = W_pv
             THEN [i2 EXCEPT !.pv = SliceJoin(parts, i + 2, " ")]
             ELSE ParseInfoFrom(parts, j + 1, i2)

parseInfo(parts) == ParseInfoFrom(parts, 0, EmptyInfo)

Event(name, args) == [name |-> name, args |-> args]

\* parseLine with no case for the handshake answer readyok
parseLineNoReadyok(line) ==
    IF line = <<>> THEN <<>>
    ELSE LET parts == Split(line, " ")
             command == parts[1]
         IN  CASE command = W_uciok    -> <<Event("ready", <<>>)>>
               [] command = W_info     ->
                      <<Event("info", <<parseInfo(Tail(parts))>>)>>
               [] command = W_bestmove ->
                      <<Event("bestmove", <<At(parts, 1), At(parts, 3)>>)>>
               [] OTHER -> <<>>

\* the events parseLine emits for one trimmed line: none or one
parseLine(line) ==
    IF line = <<>> THEN <<>>
    ELSE LET parts == Split(line, " ")
             command == parts[1]
         IN  CASE command = W_uciok    -> <<Event("ready", <<>>)>>
               [] command = W_readyok  -> <<Event("readyok", <<>>)>>
               [] command = W_info     ->
                      <<Event("info", <<parseInfo(Tail(parts))>>)>>
               [] command = W_bestmove ->
                      <<Event("bestmove", <<At(parts, 1), At(parts, 3)>>)>>
               [] OTHER -> <<>>

\* the events of the lines with the last line first
RECURSIVE ParseLinesBackwards(_)
ParseLinesBackwards(lines) ==
    IF lines = <<>> THEN <<>>
    ELSE ParseLinesBackwards(Tail(lines)) \o parseLine(Trim(Head(lines)))

RECURSIVE ParseLines(_)
ParseLines(lines) ==
    IF lines = <<>> THEN <<>>
    ELSE parseLine(Trim(Head(lines))) \o ParseLines(Tail(lines))

\* The bytes of a chunk are one-character strings for ASCII; "C3" and "A9"
\* are the two bytes of the UTF-8 encoding of U+00E9, a lead byte and a
\* continuation byte.
\* data.toString(): the chunk decoded as UTF-8 on its own; a lead byte with
\* no continuation byte after it in the chunk, and a continuation byte with
\* no lead byte before it, each become U+FFFD
RECURSIVE toString(_)
toString(data) ==
    IF data = <<>> THEN <<>>
    ELSE IF Head(data) = "C3"
    THEN IF Len(data) >= 2 /\ data[2] = "A9"
         THEN <<"U+00E9">> \o toString(SubSeq(data, 3, Len(data)))
         ELSE <<"U+FFFD">> \o toString(Tail(data))
    ELSE IF Head(data) = "A9" THEN <<"U+FFFD">> \o toString(Tail(data))
    ELSE <<Head(data)>> \o toString(Tail(data))

\* the stdout 'data' handler: the new buffer and the events it emits
OnData(buf, data) ==
    LET all   == buf \o toString(data)
        lines == Split(all, "\n")
    IN  [buffer |-> lines[Len(lines)],
         events |-> ParseLines(SubSeq(lines, 1, Len(lines) - 1))]

(***************************************************************************)
(* The rules library (lib/xiangqi.ts).  A board is a sequence of rows, a   *)
(* row a sequence of cells, a cell a piece or Null; rows and columns are   *)
(* counted from 0 as in the source.  Strings the code takes apart (a FEN,  *)
(* an engine move) are sequences of characters.                            *)
(***************************************************************************)
Null == [color |-> "none", type |-> "none"]

Piece(color, type) == [color |-> color, type |-> type]

Lowers == <<"a", "b", "c", "d", "e", "f", "g", "h", "i", "j", "k", "l", "m",
            "n", "o", "p", "q", "r", "s", "t", "u", "v", "w", "x", "y", "z">>

Uppers == <<"A", "B", "C", "D", "E", "F", "G", "H", "I", "J", "K", "L", "M",
            "N", "O", "P", "Q", "R", "S", "T", "U", "V", "W", "X", "Y", "Z">>

\* the upper-case letter of each lower-case letter, and the reverse
UpperOf == [ch \in {Lowers[i] : i \in 1..26} |-> Uppers[CHOOSE i \in 1..26 : Lowers[i] = ch]]

LowerOf == [ch \in {Uppers[i] : i \in 1..26} |-> Lowers[CHOOSE i \in 1..26 : Uppers[i] = ch]]

\* the character as it is
keepCase(ch) == ch

toUpperCase(ch) == IF ch \in DOMAIN UpperOf THEN UpperOf[ch] ELSE ch

toLowerCase(ch) == IF ch \in DOMAIN LowerOf THEN LowerOf[ch] ELSE ch

DigitChars == <<"0", "1", "2", "3", "4", "5", "6", "7", "8", "9">>

\* a number below ten appended to a string
DigitChar(n) == DigitChars[n + 1]

Abs(n) == IF n < 0 THEN -n ELSE n

Min(a, b) == IF a < b THEN a ELSE b

Max(a, b) == IF a < b THEN b ELSE a

\* a sequence of n empty cells
Nulls(n) == [j \in 1..n |-> Null]

\* a string of the code as a value of the model: "w", "b", or neither
TokenStr(t) ==
    CASE t = <<"w">>   -> "w"
      [] t = <<"b">>   -> "b"
      [] t = Undefined -> "undefined"
      [] OTHER         -> "other"

START_FEN ==
    <<"r", "n", "b", "a", "k", "a", "b", "n", "r", "/", "9", "/",
      "1", "c", "5", "c", "1", "/", "p", "1", "p", "1", "p", "1", "p", "1", "p", "/",
      "9", "/", "9", "/",
      "P", "1", "P", "1", "P", "1", "P", "1", "P", "/", "1", "C", "5", "C", "1", "/",
      "9", "/", "R", "N", "B", "A", "K", "A", "B", "N", "R",
      " ", "w", " ", "-", " ", "-", " ", "0", " ", "1">>

\* the cells one row string expands to
RECURSIVE ParseRow(_, _, _)
ParseRow(rowStr, i, row) ==
    IF i > Len(rowStr) THEN row
    ELSE LET char == rowStr[i]
         IN  IF char \in Digits
             THEN ParseRow(rowStr, i + 1, row \o Nulls(DigitVal(char)))
             ELSE ParseRow(rowStr, i + 1,
                           Append(row, Piece(IF char = toUpperCase(char) THEN "w" ELSE "b",
                                             toLowerCase(char))))

\* the result of parseFen for the blank-separated parts of a FEN and the
\* rows of its first part; threw stands for the TypeError of reading a row
\* that is missing
ParsedFen(parts, rows) ==
    IF Len(rows) < 10
    THEN [board |-> <<>>, turn |-> TokenStr(At(parts, 1)), threw |-> TRUE]
    ELSE [board |-> [r \in 1..10 |-> ParseRow(rows[r], 1, <<>>)],
          turn  |-> TokenStr(At(parts, 1)),
          threw |-> FALSE]

\* parseFen: parts and rows are computed once
parseFen(fenStr) ==
    CHOOSE bs \in UNION {{ParsedFen(parts, rows) : rows \in {Split(parts[1], "/")}} :
                            parts \in {Split(fenStr, " ")}} : TRUE

\* board[r][c]; a square outside the board reads undefined, which is falsy
Cell(board, r, c) ==
    IF r + 1 \in 1..Len(board) /\ c + 1 \in 1..Len(board[r + 1])
    THEN board[r + 1][c + 1]
    ELSE Null

isRed(color) == color = "w"

\* the part of a FEN that row r contributes, scanning from column c
RECURSIVE FenRow(_, _, _, _)
FenRow(board, r, c, emptyCount) ==
    IF c > 8
    THEN IF emptyCount > 0 THEN <<DigitChar(emptyCount)>> ELSE <<>>
    ELSE LET piece == Cell(board, r, c)
         IN  IF piece # Null
             THEN (IF emptyCount > 0 THEN <<DigitChar(emptyCount)>> ELSE <<>>)
                  \o <<IF isRed(piece.color) THEN toUpperCase(piece.type)
                                             ELSE toLowerCase(piece.type)>>
                  \o FenRow(board, r, c + 1, 0)
             ELSE FenRow(board, r, c + 1, emptyCount + 1)

RECURSIVE FenRows(_, _)
FenRows(board, r) ==
    IF r > 9 THEN <<>>
    ELSE FenRow(board, r, 0, 0) \o (IF r < 9 THEN <<"/">> ELSE <<>>)
         \o FenRows(board, r + 1)

generateFen(boardArg, turn) ==
    CHOOSE result \in
        {
            FenRows(board, 0) \o <<" ", turn, " ", "-", " ", "-", " ", "0", " ", "1">>
        : board \in {boardArg}} : TRUE

Files == <<"a", "b", "c", "d", "e", "f", "g", "h", "i">>

\* files[ch], and parseInt of one character; -1 stands for undefined and NaN
FileOf == [ch \in {Files[i] : i \in 1..9} |-> (CHOOSE i \in 1..9 : Files[i] = ch) - 1]

FileIndex(ch) == IF ch \in DOMAIN FileOf THEN FileOf[ch] ELSE -1

\* parseInt(ch) taken for the row as it is
RankRowUnflipped(ch) == IF ch \in Digits THEN DigitVal(ch) ELSE -1

RankRow(ch) == IF ch \in Digits THEN 9 - DigitVal(ch) ELSE -1

Square(row, col) == [row |-> row, col |-> col]

toUciMove(from, to) ==
    <<Files[from.col + 1], DigitChar(9 - from.row),
      Files[to.col + 1], DigitChar(9 - to.row)>>

\* move[i]
CharAt(s, i) == IF i + 1 \in 1..Len(s) THEN s[i + 1] ELSE "undefined"

fromUciMove(move) ==
    [from |-> Square(RankRow(CharAt(move, 1)), FileIndex(CharAt(move, 0))),
     to   |-> Square(RankRow(CharAt(move, 3)), FileIndex(CharAt(move, 2)))]

Move(from, to) == [from |-> from, to |-> to]

\* the pieces between two squares of a row, none for two squares of a file
countPiecesInRow(board, from, to) ==
    IF from.row = to.row
    THEN Cardinality({c \in (Min(from.col, to.col) + 1)..(Max(from.col, to.col) - 1) :
                        Cell(board, from.row, c) # Null})
    ELSE 0

countPiecesBetween(board, from, to) ==
    IF from.row = to.row
    THEN Cardinality({c \in (Min(from.col, to.col) + 1)..(Max(from.col, to.col) - 1) :
                        Cell(board, from.row, c) # Null})
    ELSE Cardinality({r \in (Min(from.row, to.row) + 1)..(Max(from.row, to.row) - 1) :
                        Cell(board, r, from.col) # Null})

checkPathClear(board, from, to) == countPiecesBetween(board, from, to) = 0

\* the king of a colour found by the palace scan: the inner loop stops at the
\* first king of a row, the outer loop goes on, so the last row with a king
\* decides, and in it the leftmost column
KingSquares(board, color, rows) ==
    {sq \in {Square(r, c) : r \in rows, c \in 3..5} :
        Cell(board, sq.row, sq.col) = Piece(color, "k")}

FoundKing(board, color, rows) ==
    LET ks == KingSquares(board, color, rows)
        r  == CHOOSE x \in {k.row : k \in ks} : \A k \in ks : k.row <= x
        c  == CHOOSE x \in {k.col : k \in {j \in ks : j.row = r}} :
                \A k \in {j \in ks : j.row = r} : x <= k.col
    IN  Square(r, c)

isFlyingGeneral(boardArg) ==
    CHOOSE result \in
        {
            /\ KingSquares(board, "w", 7..9) # {}
            /\ KingSquares(board, "b", 0..2) # {}
            /\ LET redKing   == FoundKing(board, "w", 7..9)
                   blackKing == FoundKing(board, "b", 0..2)
               IN  /\ redKing.col = blackKing.col
                   /\ countPiecesBetween(board, redKing, blackKing) = 0
        : board \in {boardArg}} : TRUE

\* the board after the piece on from is put on to
MovePiece(board, from, to) ==
    [board EXCEPT ![to.row + 1][to.col + 1] = board[from.row + 1][from.col + 1],
                  ![from.row + 1][from.col + 1] = Null]

Valid == [valid |-> TRUE, error |-> ""]

Invalid(error) == [valid |-> FALSE, error |-> error]

\* a pawn taken to have crossed the river wherever it stands
crossedAnywhere(piece, from) == TRUE

\* const isCrossedRiver of the pawn case
isCrossedRiver(piece, from) == IF piece.color = "w" THEN from.row <= 4 ELSE from.row >= 5

\* a leg on the far side of the knight
legStepAway(d) == IF d > 0 THEN -1 ELSE 1

\* the knight's leg is one step from the source towards the destination:
\* (dr > 0 ? 1 : -1) and (dc > 0 ? 1 : -1)
legStep(d) == IF d > 0 THEN 1 ELSE -1

\* the verdict of the switch on the piece type; Valid where the code breaks
\* out of the switch
PieceRule(board, piece, from, to) ==
    LET target == Cell(board, to.row, to.col)
        dr == to.row - from.row
        dc == to.col - from.col
        absDr == Abs(dr)
        absDc == Abs(dc)
    IN  CASE piece.type = "k" ->
               IF (absDr = 1 /\ absDc = 0) \/ (absDr = 0 /\ absDc = 1)
               THEN IF to.col < 3 \/ to.col > 5
                    THEN Invalid("King cannot leave palace")
                    ELSE IF piece.color = "w"
                    THEN IF to.row < 7 \/ to.row > 9
                         THEN Invalid("Red King cannot leave palace") ELSE Valid
                    ELSE IF to.row < 0 \/ to.row > 2
                         THEN Invalid("Black King cannot leave palace") ELSE Valid
               ELSE Invalid("King must move 1 step orthogonally")
          [] piece.type = "a" ->
               IF absDr = 1 /\ absDc = 1
               THEN IF to.col < 3 \/ to.col > 5
                    THEN Invalid("Advisor cannot leave palace")
                    ELSE IF piece.color = "w"
                    THEN IF to.row < 7 \/ to.row > 9
                         THEN Invalid("Red Advisor cannot leave palace") ELSE Valid
                    ELSE IF to.row < 0 \/ to.row > 2
                         THEN Invalid("Black Advisor cannot leave palace") ELSE Valid
               ELSE Invalid("Advisor must move 1 step diagonally")
          [] piece.type = "b" ->
               IF absDr = 2 /\ absDc = 2
               THEN IF piece.color = "w" /\ to.row < 5
                    THEN Invalid("Red Bishop cannot cross river")
                    ELSE IF piece.color # "w" /\ to.row > 4
                    THEN Invalid("Black Bishop cannot cross river")
                    ELSE IF Cell(board, from.row + dr \div 2, from.col + dc \div 2) # Null
                    THEN Invalid("Elephant eye is blocked") ELSE Valid
               ELSE Invalid("Bishop must move 2 steps diagonally")
          [] piece.type = "n" ->
               IF ~((absDr = 2 /\ absDc = 1) \/ (absDr = 1 /\ absDc = 2))
               THEN Invalid("Knight must move in L-shape")
               ELSE IF absDr = 2
               THEN IF Cell(board, from.row + legStep(dr), from.col) # Null
                    THEN Invalid("Knight leg is blocked") ELSE Valid
               ELSE IF Cell(board, from.row, from.col + legStep(dc)) # Null
                    THEN Invalid("Knight leg is blocked") ELSE Valid
          [] piece.type = "r" ->
               IF from.row # to.row /\ from.col # to.col
               THEN Invalid("Rook must move straight")
               ELSE IF ~checkPathClear(board, from, to)
               THEN Invalid("Rook path is blocked") ELSE Valid
          [] piece.type = "c" ->
               IF from.row # to.row /\ from.col # to.col
               THEN Invalid("Cannon must move straight")
               ELSE IF target # Null
               THEN IF countPiecesBetween(board, from, to) # 1
                    THEN Invalid("Cannon needs 1 screen to capture") ELSE Valid
               ELSE IF countPiecesBetween(board, from, to) # 0
                    THEN Invalid("Cannon path is blocked") ELSE Valid
          [] piece.type = "p" ->
               LET forward == IF piece.color = "w" THEN -1 ELSE 1
                   isForward == dr = forward /\ dc = 0
                   isSideways == dr = 0 /\ absDc = 1
               IN  IF isCrossedRiver(piece, from)
                   THEN IF ~isForward /\ ~isSideways
                        THEN Invalid("Pawn can only move forward or sideways after crossing river")
                        ELSE Valid
                   ELSE IF dr # forward \/ dc # 0
                        THEN Invalid("Pawn can only move forward before crossing river")
                        ELSE Valid
          [] OTHER -> Valid

validateMove(boardArg, moveArg) ==
    CHOOSE result \in
        {
            LET from == move.from
                to == move.to
                piece == Cell(board, from.row, from.col)
                target == Cell(board, to.row, to.col)
            IN  IF piece = Null THEN Invalid("No piece")
                ELSE IF from.row = to.row /\ from.col = to.col THEN Invalid("Same square")
                ELSE IF target # Null /\ target.color = piece.color
                THEN Invalid("Cannot capture own piece")
                ELSE LET rule == PieceRule(board, piece, from, to)
                     IN  IF ~rule.valid THEN rule
                         ELSE IF isFlyingGeneral(MovePiece(board, from, to))
                         THEN Invalid("Flying General")
                         ELSE Valid
        : board \in {boardArg}, move \in {moveArg}} : TRUE

\* the squares of the board that hold the king of a colour
KingsOf(board, color) ==
    {sq \in {Square(r, c) : r \in 0..9, c \in 0..8} :
        Cell(board, sq.row, sq.col) = Piece(color, "k")}

\* position checks that look at the rank of a pawn only
PositionErrorRankOnly(piece, r, c) ==
    IF piece.type = "p" /\ piece.color = "w" /\ r > 6 THEN "Red Pawn at invalid rank"
    ELSE IF piece.type = "p" /\ piece.color = "b" /\ r < 3 THEN "Black Pawn at invalid rank"
    ELSE ""

\* validateFen, "1. Position Checks": the error of the piece on row r and
\* column c, "" for none. The messages are given by their English part.
PositionError(piece, r, c) ==
    CASE piece.type = "p" ->
           IF piece.color = "w"
           THEN IF r > 6 THEN "Red Pawn at invalid rank"
                ELSE IF r >= 5 /\ c % 2 # 0 THEN "Red Pawn at invalid file before river"
                ELSE ""
           ELSE IF r < 3 THEN "Black Pawn at invalid rank"
                ELSE IF r <= 4 /\ c % 2 # 0 THEN "Black Pawn at invalid file before river"
                ELSE ""
      [] piece.type = "a" ->
           IF piece.color = "w"
           THEN IF r < 7 \/ r > 9 \/ c < 3 \/ c > 5
                THEN "Red Advisor outside palace" ELSE ""
           ELSE IF r < 0 \/ r > 2 \/ c < 3 \/ c > 5
                THEN "Black Advisor outside palace" ELSE ""
      [] piece.type = "b" ->
           IF piece.color = "w"
           THEN IF r < 5 THEN "Red Bishop crossed river" ELSE ""
           ELSE IF r > 4 THEN "Black Bishop crossed river" ELSE ""
      [] piece.type = "k" ->
           IF piece.color = "w"
           THEN IF r < 7 \/ r > 9 \/ c < 3 \/ c > 5
                THEN "Red King outside palace" ELSE ""
           ELSE IF r < 0 \/ r > 2 \/ c < 3 \/ c > 5
                THEN "Black King outside palace" ELSE ""
      [] OTHER -> ""

\* the object counts after the scan: counts[color][type]
Counts(board) ==
    LET pieces == {sq \in {Square(r, c) : r \in 0..9, c \in 0..8} :
                      Cell(board, sq.row, sq.col) # Null}
    IN  [color \in {"w", "b"} |->
            [type \in {"k", "a", "b", "n", "r", "c", "p"} |->
                Cardinality({sq \in pieces :
                                Cell(board, sq.row, sq.col) = Piece(color, type)})]]

\* count checks that look at the kings only
CountErrorKingsOnly(counts) ==
    CASE counts["w"]["k"] = 0 -> "Red King missing"
      [] counts["w"]["k"] # 1 -> "Multiple Red Kings"
      [] counts["b"]["k"] = 0 -> "Black King missing"
      [] counts["b"]["k"] # 1 -> "Multiple Black Kings"
      [] OTHER -> ""

\* validateFen, "2. Count Checks", in the order of the code; "" for none
CountError(counts) ==
    CASE counts["w"]["k"] = 0 -> "Red King missing"
      [] counts["w"]["k"] # 1 -> "Multiple Red Kings"
      [] counts["b"]["k"] = 0 -> "Black King missing"
      [] counts["b"]["k"] # 1 -> "Multiple Black Kings"
      [] counts["w"]["a"] > 2 -> "Too many Red Advisors"
      [] counts["b"]["a"] > 2 -> "Too many Black Advisors"
      [] counts["w"]["b"] > 2 -> "Too many Red Bishops"
      [] counts["b"]["b"] > 2 -> "Too many Black Bishops"
      [] counts["w"]["n"] > 2 -> "Too many Red Knights"
      [] counts["b"]["n"] > 2 -> "Too many Black Knights"
      [] counts["w"]["r"] > 2 -> "Too many Red Rooks"
      [] counts["b"]["r"] > 2 -> "Too many Black Rooks"
      [] counts["w"]["c"] > 2 -> "Too many Red Cannons"
      [] counts["b"]["c"] > 2 -> "Too many Black Cannons"
      [] counts["w"]["p"] > 5 -> "Too many Red Pawns"
      [] counts["b"]["p"] > 5 -> "Too many Black Pawns"
      [] OTHER -> ""

\* kings on one file, whatever stands between them
SameFileKings(board) ==
    \E redKingPos \in KingsOf(board, "w") : \E blackKingPos \in KingsOf(board, "b") :
        redKingPos.col = blackKingPos.col

\* validateFen, "3. Flying General Check": both counts of kings are 1 here
FacingKings(board) ==
    \E redKingPos \in KingsOf(board, "w") : \E blackKingPos \in KingsOf(board, "b") :
        /\ redKingPos.col = blackKingPos.col
        /\ \A r \in (Min(redKingPos.row, blackKingPos.row) + 1)
                      ..(Max(redKingPos.row, blackKingPos.row) - 1) :
              Cell(board, r, redKingPos.col) = Null

\* validateFen: the scan returns at the first square, rows first, whose
\* piece is placed wrongly; the counts are looked at after the scan
validateFen(fenStr) ==
    CHOOSE result \in
        {
            IF bs.threw THEN Invalid("Invalid FEN format")
            ELSE LET board == bs.board
                     wrong == {i \in 0..89 :
                                 PositionError(Cell(board, i \div 9, i % 9), i \div 9, i % 9) # ""}
                     first == CHOOSE i \in wrong : \A j \in wrong : i <= j
                 IN  IF wrong # {}
                     THEN Invalid(PositionError(Cell(board, first \div 9, first % 9),
                                                first \div 9, first % 9))
                     ELSE IF CountError(Counts(board)) # ""
                     THEN Invalid(CountError(Counts(board)))
                     ELSE IF FacingKings(board) THEN Invalid("Flying General")
                     ELSE Valid
        : bs \in {parseFen(fenStr)}} : TRUE

\* the glyphs of the notation, by their readings
getPieceName(type, color) ==
    CASE type = "k" -> IF color = "w" THEN "shuai" ELSE "jiang"
      [] type = "a" -> IF color = "w" THEN "shi(red)" ELSE "shi(black)"
      [] type = "b" -> IF color = "w" THEN "xiang(red)" ELSE "xiang(black)"
      [] type = "n" -> "ma"
      [] type = "r" -> "ju"
      [] type = "c" -> "pao"
      [] type = "p" -> IF color = "w" THEN "bing" ELSE "zu"
      [] OTHER      -> "undefined"

redCols == <<"jiu", "ba", "qi", "liu", "wu", "si", "san", "er", "yi">>

blackCols == <<"1", "2", "3", "4", "5", "6", "7", "8", "9">>

getColName(c, color) ==
    IF c + 1 \in 1..9
    THEN IF isRed(color) THEN redCols[c + 1] ELSE blackCols[c + 1]
    ELSE "undefined"

\* the rows of the other pieces of the moving piece's type on its file,
\* whatever their colour
otherTypeInCol(board, piece, fromRow, fromCol) ==
    {r \in 0..9 : r # fromRow /\ Cell(board, r, fromCol).type = piece.type}

\* the rows of the other pieces of the moving piece's type and colour on its file
otherPiecesInCol(board, piece, fromRow, fromCol) ==
    {r \in 0..9 : r # fromRow /\ Cell(board, r, fromCol) = piece}

\* the notation as the sequence of its glyphs; the empty string is <<>>
getChineseMoveNotation(boardArg, moveArg) ==
    CHOOSE result \in
        {
            LET piece == Cell(board, move.from.row, move.from.col)
                isRedTurn == isRed(piece.color)
                fromCol == move.from.col
                toCol == move.to.col
                fromRow == move.from.row
                toRow == move.to.row
                pieceName == getPieceName(piece.type, piece.color)
                fileChar == getColName(fromCol, piece.color)
                others == otherPiecesInCol(board, piece, fromRow, fromCol)
                all == others \cup {fromRow}
                \* the index of fromRow in the sorted rows
                index == Cardinality({r \in all : r < fromRow})
                prefix ==
                    IF others = {} THEN pieceName
                    ELSE IF Cardinality(all) = 2
                    THEN LET otherRow == CHOOSE r \in others : TRUE
                             isFront == IF isRedTurn THEN fromRow < otherRow
                                                     ELSE fromRow > otherRow
                         IN  IF isFront THEN "qian" ELSE "hou"
                    ELSE IF Cardinality(all) = 3
                    THEN IF isRedTurn
                         THEN IF index = 0 THEN "qian"
                              ELSE IF index = 1 THEN "zhong" ELSE "hou"
                         ELSE IF index = 2 THEN "qian"
                              ELSE IF index = 1 THEN "zhong" ELSE "hou"
                    ELSE ""
                isAdvance == IF isRedTurn THEN toRow < fromRow ELSE toRow > fromRow
                dir == IF toRow = fromRow THEN "ping"
                       ELSE IF isAdvance THEN "jin" ELSE "tui"
                isStraight == piece.type \in {"r", "c", "p", "k"}
                dist == Abs(toRow - fromRow)
                dest == IF dir = "ping" THEN getColName(toCol, piece.color)
                        ELSE IF isStraight
                        THEN IF isRedTurn THEN redCols[9 - dist + 1] ELSE DigitChars[dist + 1]
                        ELSE getColName(toCol, piece.color)
            IN  IF piece = Null THEN <<>>
                ELSE IF prefix \in {"qian", "hou", "zhong"}
                THEN <<prefix, pieceName, dir, dest>>
                ELSE <<pieceName, fileChar, dir, dest>>
        : board \in {boardArg}, move \in {moveArg}} : TRUE

(***************************************************************************)
(* The engine session.  A child process is a record:                       *)
(*   st      "running", "exiting" (`quit` has been written to it),         *)
(*           "failed" (spawn() returned it but the program never ran), or  *)
(*           "closed" (its 'close' event has been dispatched);             *)
(*   killed  kill() has been called on it;                                 *)
(*   out     the bytes it answers with that are not delivered yet;         *)
(*   timers  grace timers armed by quit() calls made on it, not yet fired; *)
(*   quitCalled  quit() has been called while it was the handle;           *)
(*   ready   a `ready` event has been emitted from its output.             *)
(* The engine program is the peer: it answers `uci` with uciok, `isready`  *)
(* with readyok, and `quit` by exiting; its answer to a command is queued  *)
(* in out when the command is written, and reaches the session later, in   *)
(* chunks, or never when the process dies first.                           *)
(***************************************************************************)
NewProc ==
    [st |-> "running", killed |-> FALSE, out |-> <<>>,
     timers |-> 0, quitCalled |-> FALSE, ready |-> FALSE]

Pids == 1..Len(procs)

NoWrite == [pid |-> 0, bytes |-> <<>>]

EngineAnswer(command) ==
    CASE command = W_uci     -> W_uciok \o <<"\n">>
      [] command = W_isready -> W_readyok \o <<"\n">>
      [] OTHER               -> <<>>

\* the engine program's reaction to a command line on its stdin
EngineReact(ps, p, command) ==
    IF ps[p].st # "running" \/ ps[p].killed
    THEN ps
    ELSE [ps EXCEPT
            ![p].out = @ \o EngineAnswer(command),
            ![p].st  = IF command = W_quit THEN "exiting" ELSE @]

\* send writing the command without its line end
sendNoNewline(ps, h, command) ==
    IF h # 0
    THEN [procs |-> EngineReact(ps, h, command),
          written |-> [pid |-> h, bytes |-> command]]
    ELSE [procs |-> ps, written |-> NoWrite]

\* UCIEngine.send on the state (ps, handle h): the children afterwards and
\* the bytes written
send(ps, h, command) ==
    IF h # 0
    THEN [procs |-> EngineReact(ps, h, command),
          written |-> [pid |-> h, bytes |-> command \o <<"\n">>]]
    ELSE [procs |-> ps, written |-> NoWrite]

\* the commands the host sends through send(): the renderer repeats the
\* handshake command once the engine has been started
HostCommands == {W_uci}

\* the causes with which spawn() throws
SpawnErrors == {"EPERM"}

\* the causes spawn() reports later, by an 'error' event on the child it
\* returned (a missing or non-executable binary)
ChildErrors == {"ENOENT"}

HasEvent(events, name) == \E i \in 1..Len(events) : events[i].name = name

PendingTimers == Cardinality({<<p, n>> \in Pids \X (1..MaxTimers) : n <= procs[p].timers})

\* UCIEngine.start(), spawn succeeding
Start ==
    /\ UNCHANGED <<gameVars, libVars>>
    /\ call' = <<"start">>
    /\ emitted' = <<>>
    /\ IF process # 0
       THEN /\ written' = NoWrite
            /\ UNCHANGED <<process, buffer, procs>>
       ELSE /\ Len(procs) < MaxProcs
            /\ LET p == Len(procs) + 1
                   r == send(Append(procs, NewProc), p, W_uci)
               IN  /\ procs' = r.procs
                   /\ written' = r.written
                   /\ process' = p
            /\ UNCHANGED buffer

\* UCIEngine.start(), spawn throwing: the catch block
StartFail(cause) ==
    /\ UNCHANGED <<gameVars, libVars>>
    /\ process = 0
    /\ call' = <<"start">>
    /\ emitted' = <<Event("error", <<cause>>)>>
    /\ written' = NoWrite
    /\ UNCHANGED <<process, buffer, procs>>

\* UCIEngine.start(), spawn returning a child that fails to run: the child's
\* 'error' event comes later and has no listener, so the session emits
\* nothing for it, now or then
StartChildError(cause) ==
    /\ UNCHANGED <<gameVars, libVars>>
    /\ process = 0
    /\ Len(procs) < MaxProcs
    /\ call' = <<"start">>
    /\ emitted' = <<>>
    /\ LET p == Len(procs) + 1
           r == send(Append(procs, [NewProc EXCEPT !.st = "failed"]), p, W_uci)
       IN  /\ procs' = r.procs
           /\ written' = r.written
           /\ process' = p
    /\ UNCHANGED buffer

\* UCIEngine.send(command); the host sends a command to a child once the
\* child's answer to the previous one has been delivered
Send(command) ==
    /\ UNCHANGED <<gameVars, libVars>>
    /\ process # 0 => procs[process].out = <<>>
    /\ call' = <<"send", command>>
    /\ emitted' = <<>>
    /\ LET r == send(procs, process, command)
       IN  /\ procs' = r.procs
           /\ written' = r.written
    /\ UNCHANGED <<process, buffer>>

\* UCIEngine.quit()
Quit ==
    /\ UNCHANGED <<gameVars, libVars>>
    /\ call' = <<"quit">>
    /\ emitted' = <<>>
    /\ IF process = 0
       THEN /\ written' = NoWrite
            /\ UNCHANGED <<process, buffer, procs>>
       ELSE /\ PendingTimers < MaxTimers
            /\ LET r == send(procs, process, W_quit)
               IN  /\ procs' = [r.procs EXCEPT ![process].timers = @ + 1,
                                               ![process].quitCalled = TRUE]
                   /\ written' = r.written
            /\ UNCHANGED <<process, buffer>>

\* the callback of a timer that quit() armed while p was the handle fires
GraceTimer(p) ==
    /\ UNCHANGED <<gameVars, libVars>>
    /\ procs[p].timers > 0
    /\ call' = <<"timer", p>>
    /\ emitted' = <<>>
    /\ written' = NoWrite
    /\ LET ps == [procs EXCEPT ![p].timers = @ - 1]
       IN  IF process # 0
           THEN /\ procs' = [ps EXCEPT ![process].killed = TRUE]
                /\ process' = 0
           ELSE /\ procs' = ps
                /\ process' = process
    /\ UNCHANGED buffer

\* the stdout 'data' handler of child p receives the child's pending output
\* as one chunk (whole lines)
Data(p) ==
    /\ UNCHANGED <<gameVars, libVars>>
    /\ procs[p].st # "closed"
    /\ procs[p].out # <<>>
    /\ call' = <<"data", p>>
    /\ written' = NoWrite
    /\ LET r == OnData(buffer, procs[p].out)
       IN  /\ buffer' = r.buffer
           /\ emitted' = r.events
           /\ procs' = [procs EXCEPT ![p].out = <<>>,
                                     ![p].ready = @ \/ HasEvent(r.events, "ready")]
    /\ UNCHANGED process

\* the exit code of child p when it exits now: the errno (here -2) when it
\* never ran, null (here -1) when killed by signal, 0 after `quit`, non-zero
\* when it crashes
ExitCode(p) ==
    IF procs[p].st = "failed" THEN -2
    ELSE IF procs[p].killed THEN -1
    ELSE IF procs[p].st = "exiting" THEN 0 ELSE 1

\* a 'close' handler that starts the engine again on every exit
OnCloseRestart(p, code) ==
    /\ UNCHANGED <<gameVars, libVars>>
    /\ procs[p].st # "closed"
    /\ code = ExitCode(p)
    /\ call' = <<"close", p>>
    /\ emitted' = <<Event("quit", <<>>)>>
    /\ LET ps == [procs EXCEPT ![p] = [NewProc EXCEPT !.st = "closed",
                                                      !.timers = procs[p].timers]]
       IN  IF Len(procs) < MaxProcs
           THEN LET r == send(Append(ps, NewProc), Len(ps) + 1, W_uci)
                IN  /\ procs' = r.procs
                    /\ written' = r.written
                    /\ process' = Len(ps) + 1
           ELSE /\ procs' = ps
                /\ written' = NoWrite
                /\ process' = 0
    /\ UNCHANGED buffer

\* the 'close' handler of child p: p has exited (on `quit`, killed, or by
\* crashing, which may happen at any time) and its pipes have ended; output
\* it had not written yet is lost with it
OnClose(p, code) ==
    /\ UNCHANGED <<gameVars, libVars>>
    /\ procs[p].st # "closed"
    /\ code = ExitCode(p)
    /\ call' = <<"close", p>>
    /\ written' = NoWrite
    /\ procs' = [procs EXCEPT ![p] = [NewProc EXCEPT !.st = "closed",
                                                     !.timers = procs[p].timers]]
    /\ process' = 0
    /\ emitted' = <<Event("quit", <<>>)>>
    /\ UNCHANGED buffer

(***************************************************************************)
(* The game controller (the App component).  app is the component's React  *)
(* state, a record with the source's names; its field boardState is the    *)
(* memo of parseFen(fen), recomputed when fen is set; a ref that mirrors a *)
(* state field equals it whenever a handler runs.  One step is one handler *)
(* with the renders and effects it causes: the state updates of a handler  *)
(* are applied together, then the effects whose dependencies changed run.  *)
(*                                                                         *)
(* engine is the controller's peer, the engine program behind the session: *)
(*   searches  the `go` commands not answered yet, oldest first, each with *)
(*             the position it searches (the one set by the `position fen` *)
(*             command sent before it) and whether `stop` was sent since;  *)
(*   statuses  the `ready` status messages on their way to the renderer.   *)
(* The engine answers every `go` with one bestmove, in the order of the    *)
(* `go` commands.                                                          *)
(***************************************************************************)
NoSquare == Square(-1, -1)

NoMove == Move(NoSquare, NoSquare)

NoGameOver == "null"

\* setFen, and the memo boardState that follows it
setFen(aArg, fenStrArg) ==
    CHOOSE result \in
        {
            [a EXCEPT !.fen = fenStr, !.boardState = parseFen(fenStr)]
        : a \in {aArg}, fenStr \in {fenStrArg}} : TRUE

boardState(a) == a.boardState

\* engineStatus.toLowerCase() on the statuses the component sets
StatusLower(status) ==
    CASE status = "Ready" -> "ready"
      [] status = "ready" -> "ready"
      [] status = "Disconnected" -> "disconnected"
      [] status = "Ready (Reset after timeout)" -> "ready (reset after timeout)"
      [] OTHER -> status

Cmd(name, arg) == [name |-> name, arg |-> arg]

\* `position fen ${fen}` followed by `go movetime ${aiLimit.value}`
PositionGo(fenStr) == <<Cmd("position", fenStr), Cmd("go", <<>>)>>

Out(a, cmds) == [app |-> a, cmds |-> cmds]

isCurrentTurnAi(a) ==
    \/ boardState(a).turn = "w" /\ a.isRedAi
    \/ boardState(a).turn = "b" /\ a.isBlackAi

\* the effect "Update internal state when FEN changes"
FenEffect(aArg) ==
    CHOOSE result \in
        {
            IF /\ isCurrentTurnAi(a)
               /\ StatusLower(a.engineStatus) = "ready"
               /\ ~a.isAiThinking
               /\ a.gameOver = NoGameOver
            THEN Out([a EXCEPT !.isCheckingRule = FALSE, !.isAiThinking = TRUE],
                     PositionGo(a.fen))
            ELSE IF /\ ~isCurrentTurnAi(a)
                    /\ StatusLower(a.engineStatus) = "ready"
                    /\ a.gameOver = NoGameOver
            THEN Out([a EXCEPT !.isCheckingRule = TRUE], PositionGo(a.fen))
            ELSE Out(a, <<>>)
        : a \in {aArg}} : TRUE

\* the dependencies of that effect (boardState follows fen, aiLimit is fixed)
FenEffectDeps(a) ==
    <<a.fen, a.engineStatus, a.isAiThinking, a.gameOver, a.isRedAi, a.isBlackAi>>

\* one render after the state prev was rendered: the effect runs when one of
\* its dependencies changed
RenderOnce(prev, o) ==
    IF o.app.boardState.threw THEN o
    ELSE IF FenEffectDeps(o.app) # FenEffectDeps(prev)
    THEN LET e == FenEffect(o.app) IN Out(e.app, o.cmds \o e.cmds)
    ELSE o

\* the renders a handler's updates cause: the first, and the one the
\* effect's own updates cause
Render(prev, o) ==
    CHOOSE last \in {RenderOnce(first.app, first) : first \in {RenderOnce(prev, o)}} : TRUE

\* applyMove leaving the side to move as it is
applyMoveKeepTurn(aArg, fromArg, toArg) ==
    CHOOSE result \in
        {
            LET bs == boardState(a)
                piece == Cell(bs.board, from.row, from.col)
            IN  IF piece = Null THEN a
                ELSE IF piece.color # bs.turn THEN a
                ELSE setFen([a EXCEPT
                               !.history = Append(@, [fen |-> a.fen, lastMove |-> a.lastMove]),
                               !.lastMove = Move(from, to),
                               !.moveHistory =
                                   Append(@, getChineseMoveNotation(bs.board, Move(from, to)))],
                            generateFen(MovePiece(bs.board, from, to), bs.turn))
        : a \in {aArg}, from \in {fromArg}, to \in {toArg}} : TRUE

applyMove(aArg, fromArg, toArg) ==
    CHOOSE result \in
        {
            LET bs == boardState(a)
                piece == Cell(bs.board, from.row, from.col)
            IN  IF piece = Null THEN a
                ELSE IF piece.color # bs.turn THEN a
                ELSE setFen([a EXCEPT
                               !.history = Append(@, [fen |-> a.fen, lastMove |-> a.lastMove]),
                               !.lastMove = Move(from, to),
                               !.moveHistory =
                                   Append(@, getChineseMoveNotation(bs.board, Move(from, to)))],
                            generateFen(MovePiece(bs.board, from, to),
                                        IF bs.turn = "w" THEN "b" ELSE "w"))
        : a \in {aArg}, from \in {fromArg}, to \in {toArg}} : TRUE

handleSquareClick(aArg, row, col) ==
    CHOOSE result \in
        {
            LET bs == boardState(a)
                piece == Cell(bs.board, row, col)
                isRedTurn == bs.turn = "w"
                isHumanTurn == (isRedTurn /\ ~a.isRedAi) \/ (~isRedTurn /\ ~a.isBlackAi)
                sel == a.selectedSquare
            IN  IF a.gameOver # NoGameOver THEN a
                ELSE IF ~isHumanTurn THEN a
                ELSE IF sel # NoSquare
                THEN IF sel.row = row /\ sel.col = col
                     THEN [a EXCEPT !.selectedSquare = NoSquare]
                     ELSE IF piece # Null /\ piece.color = Cell(bs.board, sel.row, sel.col).color
                     THEN [a EXCEPT !.selectedSquare = Square(row, col)]
                     ELSE IF ~validateMove(bs.board, Move(sel, Square(row, col))).valid
                     THEN a
                     ELSE [applyMove(a, sel, Square(row, col)) EXCEPT !.selectedSquare = NoSquare]
                ELSE IF piece # Null /\ piece.color = bs.turn
                     THEN [a EXCEPT !.selectedSquare = Square(row, col)]
                     ELSE a
        : a \in {aArg}} : TRUE

\* history.slice(n): the entries are dropped from the head instead
DropFirst(s, n) == SubSeq(s, n + 1, Len(s))

\* history.slice(0, -n) for n >= 1
DropLast(s, n) == SubSeq(s, 1, Len(s) - n)

handleUndo(aArg) ==
    CHOOSE result \in
        {
            LET bs == boardState(a)
                isHumanVsAi == (a.isRedAi /\ ~a.isBlackAi) \/ (~a.isRedAi /\ a.isBlackAi)
                isCurrentTurnHuman == \/ bs.turn = "w" /\ ~a.isRedAi
                                      \/ bs.turn = "b" /\ ~a.isBlackAi
                stepsToUndo == IF isHumanVsAi /\ isCurrentTurnHuman THEN 2 ELSE 1
                n == Len(a.history)
            IN  IF n = 0 THEN Out(a, <<>>)
                ELSE IF a.isAiThinking
                THEN Out(setFen([a EXCEPT !.isAiThinking = FALSE,
                                          !.lastMove = a.history[n].lastMove,
                                          !.history = DropLast(@, 1),
                                          !.moveHistory = DropLast(@, Min(1, Len(@)))],
                                a.history[n].fen),
                         <<Cmd("stop", <<>>)>>)
                ELSE IF n >= stepsToUndo
                THEN Out(setFen([a EXCEPT !.lastMove = a.history[n - stepsToUndo + 1].lastMove,
                                          !.history = DropLast(@, stepsToUndo),
                                          !.moveHistory = DropLast(@, Min(stepsToUndo, Len(@))),
                                          !.gameOver = NoGameOver],
                                a.history[n - stepsToUndo + 1].fen),
                         <<>>)
                ELSE Out(setFen([a EXCEPT !.lastMove = a.history[1].lastMove,
                                          !.history = <<>>,
                                          !.moveHistory = <<>>,
                                          !.gameOver = NoGameOver],
                                a.history[1].fen),
                         <<>>)
        : a \in {aArg}} : TRUE

NoneMove == <<"(", "n", "o", "n", "e", ")">>

\* the onBestMove callback
onBestMove(aArg, moveStrArg) ==
    CHOOSE result \in
        {
            LET bs == boardState(a)
                move == fromUciMove(moveStr)
                piece == Cell(bs.board, move.from.row, move.from.col)
            IN  IF a.isCheckingRule
                THEN IF moveStr = <<>> \/ moveStr = NoneMove
                     THEN [a EXCEPT !.isCheckingRule = FALSE,
                                    !.gameOver = IF bs.turn = "w"
                                                 THEN "Red Lost! (No legal moves)"
                                                 ELSE "Black Lost! (No legal moves)"]
                     ELSE [a EXCEPT !.isCheckingRule = FALSE]
                ELSE IF ~a.isAiThinking THEN a
                ELSE IF moveStr = <<>> \/ moveStr = NoneMove
                THEN [a EXCEPT !.isAiThinking = FALSE,
                               !.gameOver = IF bs.turn = "w"
                                            THEN "Red (AI) Lost! (No legal moves)"
                                            ELSE "Black (AI) Lost! (No legal moves)"]
                ELSE IF piece # Null /\ piece.color # bs.turn THEN a
                ELSE applyMove([a EXCEPT !.isAiThinking = FALSE], move.from, move.to)
        : a \in {aArg}, moveStr \in {moveStrArg}} : TRUE

\* the onClick of the Restart button, the dialog confirmed
handleRestart(a) ==
    Out(setFen([a EXCEPT !.gameOver = NoGameOver,
                         !.isCheckingRule = FALSE,
                         !.isAiThinking = FALSE,
                         !.moveHistory = <<>>,
                         !.history = <<>>,
                         !.lastMove = NoMove],
               START_FEN),
        <<Cmd("stop", <<>>)>>)

\* what onCapture and handleReRecognize do with the position the recognition
\* service returned
handleRecognized(a, fenStr) ==
    setFen([a EXCEPT !.moveHistory = <<>>,
                     !.history = <<>>,
                     !.lastMove = NoMove,
                     !.gameOver = NoGameOver],
           fenStr)

\* the engine program taking the commands of one step in order; position
\* is the position set so far. UCIEngine.send writes nothing once the
\* process is gone.
RECURSIVE EngineAccept(_, _, _)
EngineAccept(e, cmds, position) ==
    IF cmds = <<>> \/ ~e.alive THEN e
    ELSE LET c == Head(cmds)
         IN  CASE c.name = "position" -> EngineAccept(e, Tail(cmds), c.arg)
               [] c.name = "go" ->
                    EngineAccept([e EXCEPT !.searches =
                                      Append(@, [fen |-> position, stopped |-> FALSE])],
                                 Tail(cmds), position)
               [] c.name = "stop" ->
                    EngineAccept([e EXCEPT !.searches =
                                      [i \in DOMAIN @ |-> [@[i] EXCEPT !.stopped = TRUE]]],
                                 Tail(cmds), position)
               [] c.name = "uci" ->
                    EngineAccept([e EXCEPT !.statuses = @ + 1], Tail(cmds), position)
               [] OTHER -> EngineAccept(e, Tail(cmds), position)

\* the moves the engine may answer with
EngineMoves ==
    {<<"h", "2", "e", "2">>, <<"h", "7", "e", "7">>, <<"h", "7", "h", "0">>}

\* the position of the test "should handle checkmate (dead position)
\* correctly": red to move has no legal move
MATE_FEN ==
    <<"9", "/", "9", "/", "9", "/", "9", "/", "9", "/", "9", "/", "9",
      "/", "4", "r", "4", "/", "3", "r", "r", "4", "/", "3", "r", "K",
      "A", "3", " ", "w", " ", "-", " ", "-", " ", "0", " ", "1">>

\* the positions the engine answers with the no-move sentinel
DeadFens == {MATE_FEN}

\* position strings a recognition may return besides: one with nine rows,
\* one whose last row expands to eight cells, one with an unknown letter
NINE_ROWS_FEN ==
    <<"4", "k", "4", "/", "9", "/", "9", "/", "9", "/", "9", "/", "9",
      "/", "9", "/", "9", "/", "4", "K", "4", " ", "w", " ", "-", " ",
      "-", " ", "0", " ", "1">>

SHORT_ROW_FEN ==
    <<"4", "k", "4", "/", "9", "/", "9", "/", "9", "/", "9", "/", "9",
      "/", "9", "/", "9", "/", "9", "/", "4", "K", "3", " ", "w", " ",
      "-", " ", "-", " ", "0", " ", "1">>

UNKNOWN_PIECE_FEN ==
    <<"4", "k", "4", "/", "9", "/", "9", "/", "9", "/", "9", "/", "9",
      "/", "9", "/", "9", "/", "9", "/", "4", "K", "3", "x", " ", "w",
      " ", "-", " ", "-", " ", "0", " ", "1">>

\* a board seen from Black's side: the red king on e9, the black king on e0,
\* a red rook on e2 between them
FLIPPED_FEN ==
    <<"4", "K", "4", "/", "9", "/", "9", "/", "9", "/", "9", "/", "9",
      "/", "9", "/", "4", "R", "4", "/", "9", "/", "4", "k", "4", " ",
      "w", " ", "-", " ", "-", " ", "0", " ", "1">>

\* the positions a recognition returns: the ones above and the start
\* position, a board recognized as a game begins
RecognizedFens ==
    {MATE_FEN, NINE_ROWS_FEN, SHORT_ROW_FEN, UNKNOWN_PIECE_FEN, FLIPPED_FEN,
     START_FEN}

\* the squares the user clicks
ClickSquares == {Square(7, 7), Square(7, 4), Square(7, 1)}

\* the engine's possible answers to a search of a position: the no-move
\* sentinel for a dead position, otherwise a move of the side to move that
\* the rules accept
EngineReplies(fenStrArg) ==
    CHOOSE result \in
        {
            IF fenStr \in DeadFens THEN {NoneMove}
            ELSE {m \in EngineMoves :
                     LET mv == fromUciMove(m)
                         piece == Cell(bs.board, mv.from.row, mv.from.col)
                     IN  /\ piece # Null
                         /\ piece.color = bs.turn
                         /\ validateMove(bs.board, mv).valid}
        : fenStr \in {fenStrArg}, bs \in {parseFen(fenStrArg)}} : TRUE

\* a step of the controller: handler result o applied to the state rendered
\* before, its commands taken by the engine (in state e); the render result
\* and the engine's next state are computed once
GameStepWithin(e, o, moves) ==
    /\ ~app.boardState.threw
    /\ \E result \in {o} :
       \E r \in {Render(app, result)} :
       \E e1 \in {EngineAccept(e, r.cmds, START_FEN)} :
           /\ Len(e1.searches) <= MaxSearches
           /\ Len(r.app.history) <= moves
           /\ app' = r.app
           /\ engine' = e1
           /\ UNCHANGED <<sessionVars, call, libVars>>

GameStep(e, o) == GameStepWithin(e, o, MaxMoves)

\* the effect "Initialize Engine": engine:start has started the session,
\* which wrote its own `uci`, and the promise has resolved
EngineStarted ==
    /\ app.engineStatus = "Disconnected"
    /\ GameStep([engine EXCEPT !.statuses = @ + 1],
                Out([app EXCEPT !.engineStatus = "Ready"], <<Cmd("uci", <<>>)>>))

\* an engine:status message arrives
EngineStatus ==
    /\ engine.statuses > 0
    /\ GameStep([engine EXCEPT !.statuses = @ - 1],
                Out([app EXCEPT !.engineStatus = "ready"], <<>>))

\* the user clicks a square of the board
SquareClick(row, col) ==
    /\ Square(row, col) \in ClickSquares
    /\ GameStep(engine, Out(handleSquareClick(app, row, col), <<>>))

\* the Undo button, enabled when there is history
Undo ==
    /\ Len(app.history) > 0
    /\ GameStep(engine, handleUndo(app))

\* the Restart button and its confirmation dialog
Restart ==
    \E confirmed \in BOOLEAN :
        GameStep(engine, IF confirmed THEN handleRestart(app) ELSE Out(app, <<>>))

\* the checkboxes "Red AI" and "Black AI"
ToggleRedAi ==
    \E checked \in {~app.isRedAi} :
        GameStep(engine, Out([app EXCEPT !.isRedAi = checked], <<>>))

ToggleBlackAi ==
    \E checked \in {~app.isBlackAi} :
        GameStep(engine, Out([app EXCEPT !.isBlackAi = checked], <<>>))

\* the engine answers its oldest search and the answer reaches onBestMove
BestMove ==
    /\ engine.searches # <<>>
    /\ \E moveStr \in EngineReplies(engine.searches[1].fen) :
          GameStep([engine EXCEPT !.searches = Tail(@)],
                   Out(onBestMove(app, moveStr), <<>>))

\* a recognition (onCapture or handleReRecognize) returns a position
Recognize(fenStr) ==
    /\ fenStr # app.fen
    /\ GameStep(engine, Out(handleRecognized(app, fenStr), <<>>))

\* the watchdog's timer fires and the callback leaves the thinking flag set
WatchdogKeepsThinking ==
    /\ app.isAiThinking
    /\ GameStep(engine,
                Out([app EXCEPT !.engineStatus = "Ready (Reset after timeout)"],
                    <<Cmd("stop", <<>>)>>))

\* the AI watchdog's timer fires
Watchdog ==
    /\ app.isAiThinking
    /\ GameStep(engine,
                Out([app EXCEPT !.isAiThinking = FALSE,
                                !.engineStatus = "Ready (Reset after timeout)"],
                    <<Cmd("stop", <<>>)>>))

\* the engine process exits on its own: its searches and the answers it had
\* not yet written are lost. The close handler clears the process handle and
\* emits `quit`, which the main process forwards to nobody.
EngineCrash ==
    /\ app.engineStatus # "Disconnected"
    /\ engine.alive
    /\ engine' = [searches |-> <<>>, statuses |-> 0, alive |-> FALSE]
    /\ UNCHANGED <<sessionVars, call, app, libVars>>

\* simulationSnapshot === null: a snapshot taken holds a position, this one
\* holds none
NoSnapshot ==
    [fen |-> <<>>, moveHistory |-> <<>>, history |-> <<>>, lastMove |-> NoMove,
     gameOver |-> NoGameOver, isRedAi |-> FALSE, isBlackAi |-> FALSE]

\* the click of the simulation button while no simulation runs
handleStartSimulation(a) ==
    [a EXCEPT !.simulationSnapshot =
                  [fen |-> a.fen, moveHistory |-> a.moveHistory,
                   history |-> a.history, lastMove |-> a.lastMove,
                   gameOver |-> a.gameOver, isRedAi |-> a.isRedAi,
                   isBlackAi |-> a.isBlackAi],
              !.isSimulationMode = TRUE]

\* handleStopSimulation restoring the notation list and leaving the
\* position snapshots of the simulation in place
handleStopKeepHistory(aArg) ==
    CHOOSE result \in
        {
            LET snap == a.simulationSnapshot
            IN  IF snap = NoSnapshot THEN Out(a, <<>>)
                ELSE Out(setFen([a EXCEPT !.moveHistory = snap.moveHistory,
                                          !.lastMove = snap.lastMove,
                                          !.gameOver = snap.gameOver,
                                          !.isRedAi = snap.isRedAi,
                                          !.isBlackAi = snap.isBlackAi,
                                          !.isSimulationMode = FALSE,
                                          !.simulationSnapshot = NoSnapshot,
                                          !.isAiThinking = FALSE],
                                snap.fen),
                         IF a.isAiThinking THEN <<Cmd("stop", <<>>)>> ELSE <<>>)
        : a \in {aArg}} : TRUE

\* the click of the simulation button while a simulation runs
handleStopSimulation(aArg) ==
    CHOOSE result \in
        {
            LET snap == a.simulationSnapshot
            IN  IF snap = NoSnapshot THEN Out(a, <<>>)
                ELSE Out(setFen([a EXCEPT !.moveHistory = snap.moveHistory,
                                          !.history = snap.history,
                                          !.lastMove = snap.lastMove,
                                          !.gameOver = snap.gameOver,
                                          !.isRedAi = snap.isRedAi,
                                          !.isBlackAi = snap.isBlackAi,
                                          !.isSimulationMode = FALSE,
                                          !.simulationSnapshot = NoSnapshot,
                                          !.isAiThinking = FALSE],
                                snap.fen),
                         IF a.isAiThinking THEN <<Cmd("stop", <<>>)>> ELSE <<>>)
        : a \in {aArg}} : TRUE

\* the simulation button: it starts a simulation or ends the one running
StartSimulation ==
    /\ ~app.isSimulationMode
    /\ GameStep(engine, Out(handleStartSimulation(app), <<>>))

StopSimulation ==
    /\ app.isSimulationMode
    /\ GameStep(engine, handleStopSimulation(app))

\* no call of the library on its own
NoInput == [kind |-> "none"]

NoOutput == [kind |-> "none"]

\* the program after construction
\* the component mounted, the engine not started
GameInit ==
    /\ app = [fen |-> START_FEN,
              boardState |-> parseFen(START_FEN),
              selectedSquare |-> NoSquare,
              lastMove |-> NoMove,
              moveHistory |-> <<>>,
              history |-> <<>>,
              engineStatus |-> "Disconnected",
              isAiThinking |-> FALSE,
              gameOver |-> NoGameOver,
              isCheckingRule |-> FALSE,
              isRedAi |-> FALSE,
              isBlackAi |-> TRUE,
              isSimulationMode |-> FALSE,
              simulationSnapshot |-> NoSnapshot]
    /\ engine = [searches |-> <<>>, statuses |-> 0, alive |-> TRUE]

ProgramInit ==
    /\ process = 0
    /\ buffer = <<>>
    /\ procs = <<>>
    /\ call = <<"new">>
    /\ emitted = <<>>
    /\ written = NoWrite
    /\ GameInit

Init ==
    /\ ProgramInit
    /\ input = NoInput
    /\ output = NoOutput

Next ==
    \/ Start
    \/ \E cause \in SpawnErrors : StartFail(cause)
    \/ \E cause \in ChildErrors : StartChildError(cause)
    \/ \E command \in HostCommands : Send(command)
    \/ Quit
    \/ \E p \in Pids : GraceTimer(p)
    \/ \E p \in Pids : Data(p)
    \/ \E p \in Pids : OnClose(p, ExitCode(p))

\* the engine session
Spec == Init /\ [][Next]_vars

GameNext ==
    \/ EngineStarted
    \/ EngineStatus
    \/ \E sq \in ClickSquares : SquareClick(sq.row, sq.col)
    \/ Undo
    \/ Restart
    \/ ToggleRedAi
    \/ ToggleBlackAi
    \/ BestMove
    \/ Watchdog

\* the game controller with the engine behind it
GameSpec == Init /\ [][GameNext]_vars

RecognitionNext ==
    \/ EngineStarted
    \/ EngineStatus
    \/ \E fenStr \in RecognizedFens : Recognize(fenStr)
    \/ \E sq \in ClickSquares : SquareClick(sq.row, sq.col)
    \/ Restart
    \/ BestMove

\* the game controller taking positions from the recognition service
RecognitionSpec == Init /\ [][RecognitionNext]_vars

\* the squares two human players click: h2, e2, e6, e9, d9, e8, h7
MatchSquares ==
    {Square(7, 7), Square(7, 4), Square(3, 4), Square(0, 4), Square(0, 3),
     Square(1, 4), Square(2, 7)}

MatchClick(row, col) ==
    /\ Square(row, col) \in MatchSquares
    /\ GameStepWithin(engine, Out(handleSquareClick(app, row, col), <<>>), MaxPlies)

MatchUndo ==
    /\ Len(app.history) > 0
    /\ GameStepWithin(engine, handleUndo(app), MaxPlies)

\* the AI checkbox of Black is cleared before the first move
MatchBlackHuman ==
    /\ app.isBlackAi
    /\ app.history = <<>>
    /\ GameStepWithin(engine, Out([app EXCEPT !.isBlackAi = FALSE], <<>>), MaxPlies)

\* a game between two human players, the engine not started
MatchNext ==
    \/ MatchBlackHuman
    \/ \E sq \in MatchSquares : MatchClick(sq.row, sq.col)
    \/ MatchUndo

MatchSpec == Init /\ [][MatchNext]_vars

\* a game against the engine whose process may exit at any time
CrashNext ==
    \/ EngineStarted
    \/ EngineStatus
    \/ \E sq \in ClickSquares : SquareClick(sq.row, sq.col)
    \/ BestMove
    \/ Watchdog
    \/ EngineCrash

\* messages sent are delivered and a timer set fires
CrashFairness ==
    /\ WF_vars(EngineStarted)
    /\ WF_vars(EngineStatus)
    /\ WF_vars(BestMove)
    /\ WF_vars(Watchdog)

CrashSpec == Init /\ [][CrashNext]_vars /\ CrashFairness

\* the position a recognition returns before, during or after a simulation
SimulationFens == {MATE_FEN}

\* a game with the simulation button: moves, undos, restarts and
\* recognitions before, during and after a simulation
SimulationNext ==
    \/ EngineStarted
    \/ \E sq \in ClickSquares : SquareClick(sq.row, sq.col)
    \/ Undo
    \/ Restart
    \/ BestMove
    \/ \E fenStr \in SimulationFens : Recognize(fenStr)
    \/ StartSimulation
    \/ StopSimulation

SimulationSpec == Init /\ [][SimulationNext]_vars


(***************************************************************************)
(* The rules library called on its own: a caller passes an argument and    *)
(* applies the functions to it.                                            *)
(***************************************************************************)
AllSquares == {Square(r, c) : r \in 0..9, c \in 0..8}

EmptyBoard == [r \in 1..10 |-> Nulls(9)]

Place(board, sq, piece) == [board EXCEPT ![sq.row + 1][sq.col + 1] = piece]

AllPieces == {Piece(c, t) : c \in {"w", "b"}, t \in {"k", "a", "b", "n", "r", "c", "p"}}

\* the squares and pieces of the boards with several pieces: the ends of the
\* first and the last row, neighbours, the middle of the board
LibSquares ==
    {Square(0, 0), Square(0, 1), Square(0, 8), Square(4, 4), Square(9, 7), Square(9, 8)}

LibPieces == {Piece("w", "k"), Piece("b", "r"), Piece("w", "p"), Piece("b", "c")}

\* the boards with at most n pieces of LibPieces on LibSquares
RECURSIVE BoardsWith(_)
BoardsWith(n) ==
    IF n = 0 THEN {EmptyBoard}
    ELSE LET B == BoardsWith(n - 1)
         IN  B \cup {Place(b, sq, p) : b \in B, sq \in LibSquares, p \in LibPieces}

\* the board of the start position
StartBoard == parseFen(START_FEN).board

\* empty squares of the start position: e1 in the red palace, e8 in the
\* black palace, e5 at the river
ExtraSquares == {Square(8, 4), Square(1, 4), Square(4, 4)}

\* board b with at most n more pieces on ExtraSquares
RECURSIVE WithExtras(_, _)
WithExtras(b, n) ==
    IF n = 0 THEN {b}
    ELSE LET B == WithExtras(b, n - 1)
         IN  B \cup {Place(x, sq, p) : x \in B, sq \in ExtraSquares, p \in AllPieces}

\* the start position, whole and without one of its kings, with at most n
\* extra pieces
ValidationBoards(n) ==
    UNION {WithExtras(b, n) :
             b \in {StartBoard,
                    Place(StartBoard, Square(9, 4), Null),
                    Place(StartBoard, Square(0, 4), Null)}}

\* the squares of the red and the black king: facing on the e-file from the
\* first rows, off each other's file, facing on the d-file from the far
\* side of the palaces
KingPairs ==
    {<<Square(9, 4), Square(0, 4)>>, <<Square(9, 5), Square(0, 3)>>,
     <<Square(7, 3), Square(2, 3)>>}

KingsOn(pair) ==
    Place(Place(EmptyBoard, pair[1], Piece("w", "k")), pair[2], Piece("b", "k"))

\* a board and a side to move passed to generateFen
LibPosition(b, t) == [kind |-> "position", board |-> b, turn |-> t]

Result(kind, value) == [kind |-> kind, value |-> value]

LibRest == UNCHANGED <<sessionVars, call, gameVars, input>>

\* toUciMove(from, to)
ToUciMove ==
    /\ input.kind = "move"
    /\ output = NoOutput
    /\ output' = Result("uci", toUciMove(input.from, input.to))
    /\ LibRest

\* fromUciMove of the string toUciMove returned
FromUciMove ==
    /\ output.kind = "uci"
    /\ output' = Result("squares", fromUciMove(output.value))
    /\ LibRest

\* generateFen(board, turn)
GenerateFen ==
    /\ input.kind = "position"
    /\ output = NoOutput
    /\ output' = Result("fen", generateFen(input.board, input.turn))
    /\ LibRest

\* parseFen of the string generateFen returned
ParseFen ==
    /\ output.kind = "fen"
    /\ output' = Result("parsed", parseFen(output.value))
    /\ LibRest

\* validateFen of the position string of a board
ValidateFen ==
    /\ input.kind = "position"
    /\ output = NoOutput
    /\ output' = Result("validation", validateFen(generateFen(input.board, input.turn)))
    /\ LibRest

\* a caller passes a pair of squares to toUciMove, or to generateFen a side
\* to move and a board: every piece alone on every square, the boards with
\* several pieces, the start position with extra pieces
LibraryInit ==
    /\ ProgramInit
    /\ \/ \E f \in AllSquares : \E t \in AllSquares :
             input = [kind |-> "move", from |-> f, to |-> t]
       \/ \E t \in {"w", "b"} :
             \/ \E sq \in AllSquares : \E p \in AllPieces :
                   input = LibPosition(Place(EmptyBoard, sq, p), t)
             \/ \E b \in BoardsWith(MaxPieces) : input = LibPosition(b, t)
             \/ \E b \in ValidationBoards(MaxExtra) : input = LibPosition(b, t)
    /\ output = NoOutput

LibraryNext ==
    \/ ToUciMove
    \/ FromUciMove
    \/ GenerateFen
    \/ ParseFen
    \/ ValidateFen

LibrarySpec == LibraryInit /\ [][LibraryNext]_vars

\* validateFen is passed the two kings with one more piece of any kind on
\* any square (on the square of a king the piece takes its place; the king
\* put on its own square leaves the kings alone)
ValidationInit ==
    /\ ProgramInit
    /\ \E pair \in KingPairs : \E sq \in AllSquares : \E p \in AllPieces : \E t \in {"w", "b"} :
          input = [kind |-> "position", board |-> Place(KingsOn(pair), sq, p), turn |-> t]
    /\ output = NoOutput

ValidationNext == ValidateFen

\* validateFen called on positions of the two kings
ValidationSpec == ValidationInit /\ [][ValidationNext]_vars

\* the pieces that stand in the way of a move or at its end, at most
MaxOthers == 3

OtherPieces == {Piece("w", "r"), Piece("b", "r")}

\* board b with at most n more pieces of OtherPieces on the given squares
RECURSIVE Scatter(_, _, _)
Scatter(b, squares, n) ==
    IF n = 0 THEN {b}
    ELSE LET B == Scatter(b, squares, n - 1)
         IN  B \cup {Place(x, sq, p) : x \in B, sq \in squares, p \in OtherPieces}

Attempt(board, move) == [kind |-> "attempt", board |-> board, move |-> move]

FacingPair == <<Square(9, 4), Square(0, 4)>>

OffsetPair == <<Square(9, 5), Square(0, 3)>>

\* a cannon of either colour on e5, between the kings or beside their
\* files; other pieces to its right on the row and above it on the file;
\* moved along the row, along the file and off both
CannonAttempt ==
    \E pair \in {FacingPair, OffsetPair} : \E color \in {"w", "b"} :
    \E b \in Scatter(Place(KingsOn(pair), Square(4, 4), Piece(color, "c")),
                     {Square(4, 5), Square(4, 6), Square(4, 7), Square(3, 4), Square(2, 4)},
                     MaxOthers) :
    \E t \in {Square(4, c) : c \in 0..8} \cup {Square(r, 4) : r \in 1..6} \cup {Square(3, 5)} :
        input = Attempt(b, Move(Square(4, 4), t))

\* a knight of either colour on e5, the kings off each other's file; other
\* pieces on the four squares next to it and on f7, one of its
\* destinations; moved to the squares at most two rows and columns away
KnightAttempt ==
    \E color \in {"w", "b"} :
    \E b \in Scatter(Place(KingsOn(OffsetPair), Square(4, 4), Piece(color, "n")),
                     {Square(3, 4), Square(5, 4), Square(4, 3), Square(4, 5), Square(2, 5)},
                     MaxOthers) :
    \E t \in {Square(r, c) : r \in 2..6, c \in 2..6} :
        input = Attempt(b, Move(Square(4, 4), t))

\* a pawn of either colour on e5 or e4, on either side of the river; other
\* pieces before, behind and beside it; moved to the squares at most two
\* rows and columns away
PawnAttempt ==
    \E from \in {Square(4, 4), Square(5, 4)} : \E color \in {"w", "b"} :
    \E b \in Scatter(Place(KingsOn(OffsetPair), from, Piece(color, "p")),
                     {Square(from.row - 1, 4), Square(from.row + 1, 4), Square(from.row, 5)},
                     MaxOthers) :
    \E t \in {Square(r, c) : r \in (from.row - 2)..(from.row + 2), c \in 2..6} :
        input = Attempt(b, Move(from, t))

\* a rook of either colour on e5 with other rooks, red and black, before
\* and behind it on the file and beside it; moved forward, backward and
\* sideways
RookAttempt ==
    \E color \in {"w", "b"} :
    \E b \in Scatter(Place(KingsOn(OffsetPair), Square(4, 4), Piece(color, "r")),
                     {Square(2, 4), Square(3, 4), Square(6, 4), Square(7, 4), Square(4, 5)},
                     MaxOthers) :
    \E t \in {Square(1, 4), Square(5, 4), Square(4, 3)} :
        input = Attempt(b, Move(Square(4, 4), t))

\* validateMove(board, move)
ValidateMove ==
    /\ input.kind = "attempt"
    /\ output = NoOutput
    /\ output' = Result("verdict", validateMove(input.board, input.move))
    /\ LibRest

\* getChineseMoveNotation(board, move)
Notate ==
    /\ input.kind = "attempt"
    /\ output = NoOutput
    /\ output' = Result("notation", getChineseMoveNotation(input.board, input.move))
    /\ LibRest

MoveInit ==
    /\ ProgramInit
    /\ (CannonAttempt \/ KnightAttempt \/ PawnAttempt \/ RookAttempt)
    /\ output = NoOutput

MoveNext ==
    \/ ValidateMove
    \/ Notate

\* validateMove and getChineseMoveNotation called on the moves of a cannon,
\* a knight, a pawn and a rook
MoveSpec == MoveInit /\ [][MoveNext]_vars

(***************************************************************************)
(* The engine's output stream reaching the 'data' handler in chunks.       *)
(***************************************************************************)
\* the lines of a stream, at most
MaxLines == 2

Chars(w1, w2) == w1 \o <<" ">> \o w2

\* the lines an engine writes: the handshake answers, bare and with a
\* carriage return before the line end, an id line, an info line, a
\* bestmove with a move, with the no-move sentinel and with a token that
\* holds a two-byte character, an option line and an empty line
StreamLines ==
    {W_uciok, W_readyok, W_uciok \o <<"\r">>, Chars(W_id, <<"x">>),
     Chars(W_info, Chars(W_depth, <<"1">>)),
     Chars(W_bestmove, <<"h", "2", "e", "2">>),
     Chars(W_bestmove, <<"(", "n", "o", "n", "e", ")">>),
     Chars(W_bestmove, <<"C3", "A9">>), Chars(W_option, <<"x">>),
     <<>>}

\* the streams of at most n lines, each ended by a newline
RECURSIVE Streams(_)
Streams(n) ==
    IF n = 0 THEN {<<>>}
    ELSE Streams(n - 1) \cup {s \o l \o <<"\n">> : s \in Streams(n - 1), l \in StreamLines}

\* start() has spawned child 1 and written uci; the child's output is a
\* stream. output records what the handler has received: the decoded text
\* and the events emitted so far.
StreamInit ==
    /\ GameInit
    /\ \E s \in Streams(MaxLines) :
          /\ input = [kind |-> "stream", bytes |-> s]
          /\ procs = <<[NewProc EXCEPT !.out = s]>>
    /\ process = 1
    /\ buffer = <<>>
    /\ call = <<"start">>
    /\ emitted = <<>>
    /\ written = [pid |-> 1, bytes |-> W_uci \o <<"\n">>]
    /\ output = [kind |-> "received", value |-> <<>>, text |-> <<>>]

\* the stdout 'data' handler of child p receives the next k bytes of the
\* child's output as one chunk
DataChunk(p, k) ==
    /\ procs[p].st # "closed"
    /\ k \in 1..Len(procs[p].out)
    /\ call' = <<"data", p>>
    /\ written' = NoWrite
    /\ \E data \in {SubSeq(procs[p].out, 1, k)} : \E r \in {OnData(buffer, data)} :
          /\ buffer' = r.buffer
          /\ emitted' = r.events
          /\ procs' = [procs EXCEPT ![p].out = SubSeq(@, k + 1, Len(@)),
                                    ![p].ready = @ \/ HasEvent(r.events, "ready")]
          /\ output' = [output EXCEPT !.value = @ \o r.events,
                                      !.text = @ \o toString(data)]
    /\ UNCHANGED <<process, gameVars, input>>

\* the bytes of a chunk that is not all of the pending output, at most
MaxChunk == 3

\* a chunk is the first few bytes of the pending output or all of it
StreamNext == \E k \in 1..MaxChunk \cup {Len(procs[1].out)} : DataChunk(1, k)

StreamSpec == StreamInit /\ [][StreamNext]_vars

(***************************************************************************)
(* The info lines of an engine reaching parseLine.                         *)
(***************************************************************************)
\* the key/value fields of an info line before its pv, at most
MaxFields == 3
\* the tokens after the pv key, at most
MaxPv == 2

W_multipv == <<"m", "u", "l", "t", "i", "p", "v">>
W_nodes   == <<"n", "o", "d", "e", "s">>
W_cp      == <<"c", "p">>
W_mate    == <<"m", "a", "t", "e">>

RECURSIVE DecimalNat(_)
DecimalNat(n) ==
    IF n < 10 THEN <<DigitChar(n)>>
    ELSE DecimalNat(n \div 10) \o <<DigitChar(n % 10)>>

\* the decimal numeral an engine prints for an integer
Decimal(n) == IF n < 0 THEN <<"-">> \o DecimalNat(0 - n) ELSE DecimalNat(n)

\* a field of an info line: its key, the kind of a score (empty for the
\* other keys) and its number
InfoField(key, tag, val) == [key |-> key, tag |-> tag, val |-> val]

\* the fields an engine reports: a depth, a centipawn score below zero, a
\* mate score, a multi-PV rank and a node count
InfoFields ==
    {InfoField(W_depth, <<>>, 12),
     InfoField(W_score, W_cp, -20), InfoField(W_score, W_mate, 3),
     InfoField(W_multipv, <<>>, 2), InfoField(W_nodes, <<>>, 90)}

\* the tokens of a principal variation: a move, and tokens that read like a
\* key and like a number
PvTokens == {<<"h", "2", "e", "2">>, W_depth, <<"9">>}

RECURSIVE SeqsUpTo(_, _)
\* the sequences of at most n elements of S
SeqsUpTo(S, n) ==
    IF n = 0 THEN {<<>>}
    ELSE SeqsUpTo(S, n - 1)
            \cup {Append(s, x) : s \in SeqsUpTo(S, n - 1), x \in S}

\* the tokens of a field
FieldTokens(f) ==
    IF f.tag = <<>> THEN <<f.key, Decimal(f.val)>>
    ELSE <<f.key, f.tag, Decimal(f.val)>>

RECURSIVE TokensOf(_)
TokensOf(fields) ==
    IF fields = <<>> THEN <<>>
    ELSE FieldTokens(Head(fields)) \o TokensOf(Tail(fields))

\* the line of an engine for the fields and the principal variation (a
\* sequence of tokens after the pv key, or no pv key at all)
InfoLine(fields, hasPv, moves) ==
    JoinFrom(<<W_info>> \o TokensOf(fields)
                \o (IF hasPv THEN <<W_pv>> \o moves ELSE <<>>), 1, " ")

InfoInit ==
    /\ ProgramInit
    /\ \E fields \in SeqsUpTo(InfoFields, MaxFields) :
       \E hasPv \in BOOLEAN :
       \E moves \in (IF hasPv THEN SeqsUpTo(PvTokens, MaxPv) ELSE {<<>>}) :
          input = [kind |-> "infoline", fields |-> fields, hasPv |-> hasPv,
                   moves |-> moves, line |-> InfoLine(fields, hasPv, moves)]
    /\ output = NoOutput

\* parseLine on the trimmed line, as the 'data' handler calls it
ParseLine ==
    /\ input.kind = "infoline"
    /\ output = NoOutput
    /\ output' = Result("events", parseLine(Trim(input.line)))
    /\ LibRest

InfoNext == ParseLine

InfoSpec == InfoInit /\ [][InfoNext]_vars

(***************************************************************************)
(* A child that exits in the middle of a line, and the child started after *)
(* it.                                                                     *)
(***************************************************************************)
\* what the first child has written when the session starts to read: the
\* handshake answer, the handshake answer and the start of a line, a line
\* without its end, the start of the handshake answer
FirstOutputs ==
    {W_uciok \o <<"\n">>,
     W_uciok \o <<"\n">> \o <<"b", "e">>,
     Chars(W_bestmove, <<"h", "2", "e", "2">>),
     <<"u", "c">>}

\* start() has spawned child 1 and written uci. output records, child by
\* child, the decoded text the 'data' handler was given and the events
\* emitted from it.
RestartInit ==
    /\ GameInit
    /\ \E s \in FirstOutputs :
          /\ input = [kind |-> "restart", bytes |-> s]
          /\ procs = <<[NewProc EXCEPT !.out = s]>>
    /\ process = 1
    /\ buffer = <<>>
    /\ call = <<"start">>
    /\ emitted = <<>>
    /\ written = [pid |-> 1, bytes |-> W_uci \o <<"\n">>]
    /\ output = [kind |-> "children",
                 value |-> [p \in 1..MaxProcs |-> <<>>],
                 text |-> [p \in 1..MaxProcs |-> <<>>]]

\* the stdout 'data' handler of child p receives the next k bytes of the
\* child's output as one chunk
ChildData(p, k) ==
    /\ procs[p].st # "closed"
    /\ k \in 1..Len(procs[p].out)
    /\ call' = <<"data", p>>
    /\ written' = NoWrite
    /\ \E data \in {SubSeq(procs[p].out, 1, k)} : \E r \in {OnData(buffer, data)} :
          /\ buffer' = r.buffer
          /\ emitted' = r.events
          /\ procs' = [procs EXCEPT ![p].out = SubSeq(@, k + 1, Len(@)),
                                    ![p].ready = @ \/ HasEvent(r.events, "ready")]
          /\ output' = [output EXCEPT !.value[p] = @ \o r.events,
                                      !.text[p] = @ \o toString(data)]
    /\ UNCHANGED <<process, gameVars, input>>

RestartNext ==
    \/ Start
    \/ \E p \in Pids : OnClose(p, ExitCode(p))
    \/ \E p \in Pids : \E k \in 1..MaxChunk \cup {Len(procs[p].out)} : ChildData(p, k)

RestartSpec == RestartInit /\ [][RestartNext]_vars

(***************************************************************************)
(* A position, a move of the side to move and the position after it.       *)
(***************************************************************************)
\* the rows and the columns a move spans, at most
MaxReach == 2

\* the squares of the piece beside the kings: e5 and e4 on the two banks of
\* the river, e1 and e8 in the palaces and on the file of the facing kings
MoverSquares == {Square(4, 4), Square(5, 4), Square(8, 4), Square(1, 4)}

\* the squares of the board at most n rows and n columns from sq
Reach(sq, n) ==
    {Square(r, c) : r \in (sq.row - n)..(sq.row + n) \cap 0..9,
                    c \in (sq.col - n)..(sq.col + n) \cap 0..8}

\* the kings facing each other on the e-file or off each other's files, a
\* piece on one of the squares, a black rook on f5 or none; the side to move
\* moves the piece or its king
SuccessorInit ==
    /\ ProgramInit
    /\ \E pair \in {FacingPair, OffsetPair} :
       \E sq \in MoverSquares :
       \E p \in AllPieces :
       \E b \in {Place(KingsOn(pair), sq, p),
                 Place(Place(KingsOn(pair), sq, p), Square(4, 5), Piece("b", "r"))} :
       \E from \in {sq, pair[1], pair[2]} :
       \E to \in Reach(from, MaxReach) :
          input = [kind |-> "successor", board |-> b,
                   turn |-> Cell(b, from.row, from.col).color,
                   move |-> Move(from, to)]
    /\ output = NoOutput

\* validateFen of the position, validateMove of the move on its board, and
\* validateFen of the position applyMove makes of them
ValidateSuccessor ==
    /\ input.kind = "successor"
    /\ output = NoOutput
    /\ output' = Result("successor",
                        [before |-> validateFen(generateFen(input.board, input.turn)),
                         move |-> validateMove(input.board, input.move),
                         after |-> validateFen(generateFen(
                                      MovePiece(input.board, input.move.from, input.move.to),
                                      IF input.turn = "w" THEN "b" ELSE "w"))])
    /\ LibRest

SuccessorNext == ValidateSuccessor

SuccessorSpec == SuccessorInit /\ [][SuccessorNext]_vars

(***************************************************************************)
(* Engine session claims.                                                 *)
(***************************************************************************)
QuitEvent == Event("quit", <<>>)

\* the step spawned a child
Spawned == Len(procs') > Len(procs)

\* the children the session started that run and have not been killed
Live == {p \in Pids : procs[p].st = "running" /\ ~procs[p].killed}

\* C1: when a child exits and quit() was never called on it, the session
\* clears the handle and emits exactly one `crashed` carrying the exit code
\* (and restarts later).
C1_CrashEmitsCrashed ==
    [][\A p \in Pids :
         (call' = <<"close", p>> /\ ~procs[p].quitCalled)
            => /\ process' = 0
               /\ emitted' = <<Event("crashed", <<ExitCode(p)>>)>>]_vars

\* C2: the exit of a child on which quit() was called emits `quit` and
\* leaves the handle empty with nothing spawned; no step emits `crashed`;
\* and a child is only ever spawned by a call of start().
C2_QuitEmitsQuit ==
    [][/\ \A p \in Pids :
            (call' = <<"close", p>> /\ procs[p].quitCalled)
               => /\ emitted' = <<QuitEvent>>
                  /\ process' = 0
                  /\ ~Spawned
       /\ ~HasEvent(emitted', "crashed")
       /\ Spawned => call' = <<"start">>
       /\ (process = 0 /\ process' # 0) => call' = <<"start">>]_vars

\* C2 witness: a child on which quit() was called (its grace timer is still
\* armed) has exited; `quit` was emitted and the handle is empty.
C2_Witness ==
    \E p \in Pids :
        /\ call = <<"close", p>>
        /\ procs[p].st = "closed"
        /\ procs[p].timers > 0
        /\ emitted = <<QuitEvent>>
        /\ process = 0

\* C3: at every moment at most one child of the session is live.
C3_OneLiveProcess == Cardinality(Live) <= 1

\* C4: `ready` is emitted at most once from the output of one child.
C4_ReadyOncePerProcess ==
    [][\A p \in Pids :
         (call' = <<"data", p>> /\ HasEvent(emitted', "ready"))
            => ~procs[p].ready]_vars

\* C5: a child stays live until quit() is called on it or it crashes: the
\* session kills no child on which quit() was not called.
C5_RestartedStaysLive ==
    [][\A p \in Pids :
         (~procs[p].killed /\ procs'[p].killed) => procs[p].quitCalled]_vars

\* C6: when a grace timer fires and the child that quit() was called on has
\* not exited, the child is killed and the handle is empty afterwards.
C6_GraceTimerKills ==
    [][\A p \in Pids :
         (call' = <<"timer", p>> /\ procs[p].st # "closed")
            => /\ procs'[p].killed
               /\ process' = 0]_vars

C8_SpawnFailureEmitsError ==
    [][(/\ call' = <<"start">>
        /\ process = 0
        /\ ~(Spawned /\ procs'[Len(procs')].st = "running"))
          => /\ process' = 0
             /\ \E cause \in SpawnErrors \cup ChildErrors :
                   emitted' = <<Event("error", <<cause>>)>>]_vars

(***************************************************************************)
(* Game controller claims.                                                 *)
(***************************************************************************)
\* the searches the engine has been asked for and neither answered nor was
\* told to stop
Unstopped == {i \in DOMAIN engine.searches : ~engine.searches[i].stopped}

\* C9: the controller never sends a `go` while an earlier `go` is unanswered
\* without a `stop` in between: at most one unanswered search has not been
\* stopped.
C9_NoGoWhileOutstanding == Cardinality(Unstopped) <= 1

\* C10: a bestmove that answers a search of a position other than the
\* current one is not applied: FEN and history stay as they are.
C10_StaleBestMoveDiscarded ==
    [][(BestMove /\ engine.searches[1].fen # app.fen)
          => /\ app'.fen = app.fen
             /\ app'.history = app.history]_vars

\* C11: when the answer to the legality-check search of the current position
\* is the no-move sentinel, the game is declared lost for the side to move.
C11_NoneLosesGame ==
    [][(/\ BestMove
        /\ engine.searches[1].fen = app.fen
        /\ app.fen \in DeadFens
        /\ ~isCurrentTurnAi(app))
          => app'.gameOver = IF boardState(app).turn = "w"
                             THEN "Red Lost! (No legal moves)"
                             ELSE "Black Lost! (No legal moves)"]_vars

\* the step applied a move: it pushed an entry on the history
MoveApplied == Len(app'.history) = Len(app.history) + 1

\* C12: a move is applied to the position, by a click or by a bestmove, only
\* if validateMove accepts it on the board it is applied to.
C12_AppliedMovesValidated ==
    [][MoveApplied => validateMove(boardState(app).board, app'.lastMove).valid]_vars

\* the engine has been asked to search position fenStr and has not answered
\* nor been told to stop
Requested(e, fenStr) ==
    \E i \in DOMAIN e.searches : e.searches[i] = [fen |-> fenStr, stopped |-> FALSE]

\* C14: after a watchdog timeout the controller still requests engine moves:
\* when the position changes to one in which the AI is to move, the search
\* of that position is sent.
C14_WatchdogRecoverable ==
    [][(/\ app.engineStatus = "Ready (Reset after timeout)"
        /\ app'.fen # app.fen
        /\ isCurrentTurnAi(app')
        /\ app'.gameOver = NoGameOver)
          => /\ app'.isAiThinking
             /\ Requested(engine', app'.fen)]_vars

\* C13: when the engine has exited while the controller waits for the move
\* of a search, a search of the current position is eventually outstanding
\* at a running engine again.
C13_LostSearchReissued ==
    (~engine.alive /\ app.isAiThinking) ~> (engine.alive /\ Requested(engine, app.fen))

\* C16: the board of the game holds exactly one red king and exactly one
\* black king in every state a game reaches by applied moves and undos.
C16_OneKingEach ==
    /\ Cardinality(KingsOf(app.boardState.board, "w")) = 1
    /\ Cardinality(KingsOf(app.boardState.board, "b")) = 1

\* the letters of the pieces in a FEN
PieceLetters ==
    {"k", "a", "b", "n", "r", "c", "p", "K", "A", "B", "N", "R", "C", "P"}

\* a position string that is not ten rows of nine cells of known pieces
Malformed(fenStr) ==
    \E rows \in {Split(Split(fenStr, " ")[1], "/")} :
        \/ Len(rows) # 10
        \/ \E r \in 1..Len(rows) :
              \/ Len(ParseRow(rows[r], 1, <<>>)) # 9
              \/ \E i \in 1..Len(rows[r]) : rows[r][i] \notin Digits \cup PieceLetters

\* C17: the position of the game is never a malformed position string (wrong
\* number of rows, a row that does not expand to nine cells, an unknown
\* piece letter).
C17_MalformedNeverInstalled == ~Malformed(app.fen)

\* C18: parseFen of the string generateFen makes of a 10x9 board and a side
\* to move returns that board and that side.
C18_FenRoundTrip ==
    output.kind = "parsed" =>
        /\ ~output.value.threw
        /\ output.value.board = input.board
        /\ output.value.turn = input.turn

\* C18 witness: the round trip is done for a board whose first row starts
\* with a red king next to a black rook, Black to move.
C18_Witness ==
    /\ output.kind = "parsed"
    /\ input.turn = "b"
    /\ input.board = Place(Place(EmptyBoard, Square(0, 0), Piece("w", "k")),
                           Square(0, 1), Piece("b", "r"))

\* C19: toUciMove maps column i to the file letter a..i and row r to the
\* rank 9 - r, and fromUciMove of its result is the pair of squares again,
\* for all squares of rows 0..9 and columns 0..8.
C19_UciRoundTrip ==
    /\ output.kind = "uci" =>
          output.value = <<Files[input.from.col + 1], DigitChars[9 - input.from.row + 1],
                           Files[input.to.col + 1], DigitChars[9 - input.to.row + 1]>>
    /\ output.kind = "squares" =>
          /\ output.value.from = input.from
          /\ output.value.to = input.to

\* C19 witness: the round trip of the move from the corner a0 (row 9,
\* column 0) to the corner i9 (row 0, column 8) is done.
C19_Witness ==
    /\ output.kind = "squares"
    /\ input.from = Square(9, 0)
    /\ input.to = Square(0, 8)

\* the colours and types whose count on the board is out of bounds: one
\* king, at most five pawns, at most two of every other type
OutOfBounds(counts) ==
    {v \in {"w", "b"} \X {"k", "a", "b", "n", "r", "c", "p"} :
        IF v[2] = "k" THEN counts[v[1]][v[2]] # 1
        ELSE counts[v[1]][v[2]] > (IF v[2] = "p" THEN 5 ELSE 2)}

\* the reason that names the bound of a type and colour
BoundReason(counts, color, type) ==
    CASE type = "k" /\ counts[color][type] = 0 ->
           IF color = "w" THEN "Red King missing" ELSE "Black King missing"
      [] type = "k" -> IF color = "w" THEN "Multiple Red Kings" ELSE "Multiple Black Kings"
      [] type = "a" -> IF color = "w" THEN "Too many Red Advisors" ELSE "Too many Black Advisors"
      [] type = "b" -> IF color = "w" THEN "Too many Red Bishops" ELSE "Too many Black Bishops"
      [] type = "n" -> IF color = "w" THEN "Too many Red Knights" ELSE "Too many Black Knights"
      [] type = "r" -> IF color = "w" THEN "Too many Red Rooks" ELSE "Too many Black Rooks"
      [] type = "c" -> IF color = "w" THEN "Too many Red Cannons" ELSE "Too many Black Cannons"
      [] OTHER      -> IF color = "w" THEN "Too many Red Pawns" ELSE "Too many Black Pawns"

\* C20: validateFen rejects every position with a count out of bounds, with
\* the reason of one of the bounds violated: a king missing names the side,
\* two kings of a colour are multiple kings, three red rooks too many red
\* rooks.
C20_CountBoundsReported ==
    output.kind = "validation" =>
        \A counts \in {Counts(input.board)} :
            OutOfBounds(counts) # {} =>
                /\ ~output.value.valid
                /\ output.value.error \in
                      {BoundReason(counts, v[1], v[2]) : v \in OutOfBounds(counts)}

\* no piece of the board is placed wrongly (pawn rank and file, advisor and
\* king in the palace, bishop on its side of the river)
NoneMisplaced(board) ==
    \A r \in 0..9 : \A c \in 0..8 : PositionError(Cell(board, r, c), r, c) = ""

\* C20 as amended: validateFen rejects every position with a count out of
\* bounds; when no piece of the position is placed wrongly, the reason names
\* one of the bounds violated and its colour.
C20_CountBoundsReportedUnlessMisplaced ==
    output.kind = "validation" =>
        \A counts \in {Counts(input.board)} :
            OutOfBounds(counts) # {} =>
                /\ ~output.value.valid
                /\ NoneMisplaced(input.board) =>
                      output.value.error \in
                          {BoundReason(counts, v[1], v[2]) : v \in OutOfBounds(counts)}

\* C20 witness: the start position with a third red rook on e1 is rejected
\* for too many red rooks.
C20_Witness ==
    /\ output.kind = "validation"
    /\ input.board = Place(StartBoard, Square(8, 4), Piece("w", "r"))
    /\ output.value = Invalid("Too many Red Rooks")

\* the squares of the file strictly between two squares of it that hold a piece
Between(board, a, b) ==
    {r \in (Min(a.row, b.row) + 1)..(Max(a.row, b.row) - 1) : Cell(board, r, a.col) # Null}

\* no piece is placed wrongly and no count is out of bounds
OtherwiseValid(board) == NoneMisplaced(board) /\ OutOfBounds(Counts(board)) = {}

\* C21: a position with one king of each colour on the same file is rejected
\* when no piece stands between the kings, and accepted when exactly one piece
\* stands between them and the position is valid otherwise (placement and
\* counts).
C21_FlyingGeneral ==
    output.kind = "validation" =>
        \A red \in KingsOf(input.board, "w") : \A black \in KingsOf(input.board, "b") :
            (/\ Cardinality(KingsOf(input.board, "w")) = 1
             /\ Cardinality(KingsOf(input.board, "b")) = 1
             /\ red.col = black.col)
            => /\ Between(input.board, red, black) = {} => ~output.value.valid
               /\ (/\ Cardinality(Between(input.board, red, black)) = 1
                   /\ OtherwiseValid(input.board)) => output.value.valid

\* C21 witness: the facing kings of the test with a red pawn on e4 between
\* them are accepted, and the same kings alone were rejected.
C21_Witness ==
    /\ output.kind = "validation"
    /\ input.board = Place(KingsOn(<<Square(9, 4), Square(0, 4)>>), Square(5, 4), Piece("w", "p"))
    /\ output.value = Valid
    /\ validateFen(generateFen(KingsOn(<<Square(9, 4), Square(0, 4)>>), "w")) =
          Invalid("Flying General")

\* the squares of the pawns of a board
PawnsOf(board) == {sq \in AllSquares : Cell(board, sq.row, sq.col) # Null
                                       /\ Cell(board, sq.row, sq.col).type = "p"}

\* behind the baseline of its colour: red rows 7..9, black rows 0..2
BehindBaseline(color, sq) == IF color = "w" THEN sq.row > 6 ELSE sq.row < 3

\* across the river: red rows 0..4, black rows 5..9
AcrossRiver(color, sq) == IF color = "w" THEN sq.row <= 4 ELSE sq.row >= 5

\* one king of each colour on one file and nothing between them
KingsExposed(board) ==
    \E red \in KingsOf(board, "w") : \E black \in KingsOf(board, "b") :
        red.col = black.col /\ Between(board, red, black) = {}

\* C22: a position with a pawn behind the baseline of its colour, or with a
\* pawn on an odd file that has not crossed the river, is rejected; a
\* position all of whose pawns have crossed the river is accepted, whatever
\* their files, when nothing else is wrong with it (placement of the other
\* pieces, counts, kings exposed to each other).
C22_PawnGeometry ==
    output.kind = "validation" =>
        \A board \in {input.board} :
            /\ \A sq \in PawnsOf(board) :
                  \A color \in {Cell(board, sq.row, sq.col).color} :
                      (\/ BehindBaseline(color, sq)
                       \/ ~AcrossRiver(color, sq) /\ sq.col % 2 = 1)
                      => ~output.value.valid
            /\ (/\ PawnsOf(board) # {}
                /\ \A sq \in PawnsOf(board) :
                      AcrossRiver(Cell(board, sq.row, sq.col).color, sq)
                /\ \A sq \in AllSquares \ PawnsOf(board) :
                      PositionError(Cell(board, sq.row, sq.col), sq.row, sq.col) = ""
                /\ OutOfBounds(Counts(board)) = {}
                /\ ~KingsExposed(board))
               => output.value.valid

\* C22 witness: with the kings off each other's file, the red pawn of the
\* tests on b5, an odd file across the river, is accepted; the same pawn on
\* b4 and on e1 is rejected.
C22_Witness ==
    /\ output.kind = "validation"
    /\ input.board = Place(KingsOn(<<Square(9, 5), Square(0, 3)>>), Square(4, 1), Piece("w", "p"))
    /\ output.value = Valid
    /\ validateFen(generateFen(Place(KingsOn(<<Square(9, 5), Square(0, 3)>>),
                                     Square(5, 1), Piece("w", "p")), "w")) =
          Invalid("Red Pawn at invalid file before river")
    /\ validateFen(generateFen(Place(KingsOn(<<Square(9, 5), Square(0, 3)>>),
                                     Square(8, 4), Piece("w", "p")), "w")) =
          Invalid("Red Pawn at invalid rank")

\* C23: a move validateMove accepts on the board of the game never leaves
\* the two kings on one file with no piece between them, whichever piece
\* moves.
C23_NoExposingMoveAccepted ==
    [][(/\ MoveApplied
        /\ validateMove(boardState(app).board, app'.lastMove).valid)
          => ~KingsExposed(boardState(app').board)]_vars

\* the occupied squares strictly between two squares of one row or one file
Screens(board, from, to) ==
    {sq \in AllSquares :
        /\ Cell(board, sq.row, sq.col) # Null
        /\ \/ /\ from.row = to.row /\ sq.row = from.row
              /\ Min(from.col, to.col) < sq.col /\ sq.col < Max(from.col, to.col)
           \/ /\ from.col = to.col /\ sq.col = from.col
              /\ Min(from.row, to.row) < sq.row /\ sq.row < Max(from.row, to.row)}

\* the destination is empty and nothing stands between, or the destination
\* holds an enemy piece and exactly one piece stands between
CannonMayMove(board, from, to) ==
    \A target \in {Cell(board, to.row, to.col)} :
        \/ target = Null /\ Screens(board, from, to) = {}
        \/ /\ target # Null
           /\ target.color # Cell(board, from.row, from.col).color
           /\ Cardinality(Screens(board, from, to)) = 1

\* C24: a cannon move along a row or a file is accepted exactly when the
\* destination is empty and no piece stands between, or the destination
\* holds an enemy piece and exactly one piece stands between.
C24_CannonMoves ==
    output.kind = "verdict" =>
        \A board \in {input.board} : \A from \in {input.move.from} : \A to \in {input.move.to} :
            (/\ Cell(board, from.row, from.col).type = "c"
             /\ (from.row = to.row \/ from.col = to.col))
            => (output.value.valid <=> CannonMayMove(board, from, to))

\* C24 as amended: a cannon move along a row or a file that does not leave
\* the two kings on one file with nothing between them is accepted exactly
\* when the destination is empty and no piece stands between, or the
\* destination holds an enemy piece and exactly one piece stands between.
C24_CannonMovesUnlessExposing ==
    output.kind = "verdict" =>
        \A board \in {input.board} : \A from \in {input.move.from} : \A to \in {input.move.to} :
            (/\ Cell(board, from.row, from.col).type = "c"
             /\ (from.row = to.row \/ from.col = to.col)
             /\ ~KingsExposed(MovePiece(board, from, to)))
            => (output.value.valid <=> CannonMayMove(board, from, to))

\* C24 witness: the red cannon on e5 takes the black rook on g5 over the one
\* piece between them, the red rook on f5.
C24_Witness ==
    /\ output.kind = "verdict"
    /\ input.move = Move(Square(4, 4), Square(4, 6))
    /\ input.board =
          Place(Place(Place(KingsOn(OffsetPair), Square(4, 4), Piece("w", "c")),
                      Square(4, 5), Piece("w", "r")),
                Square(4, 6), Piece("b", "r"))
    /\ output.value = Valid

\* two rows and one column, or one row and two columns
LShape(from, to) ==
    {Abs(to.row - from.row), Abs(to.col - from.col)} = {1, 2}

\* the square next to the source, on its row or its file, towards the
\* destination along the longer side of the L
Leg(from, to) ==
    IF Abs(to.row - from.row) = 2
    THEN Square((from.row + to.row) \div 2, from.col)
    ELSE Square(from.row, (from.col + to.col) \div 2)

\* C25: a knight move that is accepted is an L (two and one); an L is
\* rejected when a piece stands on its leg; and with the leg free no piece
\* on another square blocks it: an L to an empty square or an enemy piece
\* that does not uncover the kings is accepted.
C25_KnightLeg ==
    output.kind = "verdict" =>
        \A board \in {input.board} : \A from \in {input.move.from} : \A to \in {input.move.to} :
            Cell(board, from.row, from.col).type = "n" =>
                /\ output.value.valid => LShape(from, to)
                /\ LShape(from, to) =>
                      \A leg \in {Leg(from, to)} :
                          IF Cell(board, leg.row, leg.col) # Null
                          THEN ~output.value.valid
                          ELSE (/\ Cell(board, to.row, to.col).color
                                     # Cell(board, from.row, from.col).color
                                /\ ~KingsExposed(MovePiece(board, from, to)))
                               => output.value.valid

\* C25 witness: with a piece on e6, the leg of the knight on e5 towards f7
\* and d7, the move to f7 is rejected for the leg while pieces stand on two
\* of the other squares next to the knight.
C25_Witness ==
    /\ output.kind = "verdict"
    /\ input.move = Move(Square(4, 4), Square(2, 5))
    /\ input.board =
          Place(Place(Place(Place(KingsOn(OffsetPair), Square(4, 4), Piece("b", "n")),
                            Square(3, 4), Piece("w", "r")),
                      Square(4, 5), Piece("b", "r")),
                Square(5, 4), Piece("w", "r"))
    /\ output.value = Invalid("Knight leg is blocked")

\* one step towards the opposing baseline: Red up the board, Black down
StepForward(color, from, to) ==
    to.col = from.col /\ to.row = from.row + (IF color = "w" THEN -1 ELSE 1)

\* one step to the left or to the right
StepSideways(from, to) == to.row = from.row /\ Abs(to.col - from.col) = 1

\* C26: a pawn move that is accepted is one step straight forward, or one
\* step sideways from a source square across the river; no backward, no
\* diagonal and no longer move is accepted, and no sideways move from the
\* pawn's own side of the river.
C26_PawnSteps ==
    output.kind = "verdict" =>
        \A board \in {input.board} : \A from \in {input.move.from} : \A to \in {input.move.to} :
            \A pawn \in {Cell(board, from.row, from.col)} :
                (pawn.type = "p" /\ output.value.valid) =>
                    \/ StepForward(pawn.color, from, to)
                    \/ StepSideways(from, to) /\ AcrossRiver(pawn.color, from)

\* C26 witness: the red pawn on e5, across the river, is let one step
\* sideways to d5, and the black pawn on e5, not across, is not.
C26_Witness ==
    /\ output.kind = "verdict"
    /\ input.move = Move(Square(4, 4), Square(4, 3))
    /\ input.board = Place(KingsOn(OffsetPair), Square(4, 4), Piece("w", "p"))
    /\ output.value = Valid
    /\ validateMove(Place(KingsOn(OffsetPair), Square(4, 4), Piece("b", "p")),
                    Move(Square(4, 4), Square(4, 3))) =
          Invalid("Pawn can only move forward before crossing river")

\* the rows of the pieces of the moving piece's type and colour on its file,
\* the moving piece among them
FileGroup(board, from) ==
    {r \in 0..9 : Cell(board, r, from.col) = Cell(board, from.row, from.col)}

\* the rows of the group before the moving piece: Red advances to the
\* smaller rows, Black to the larger
AheadOf(board, from) ==
    {r \in FileGroup(board, from) :
        IF Cell(board, from.row, from.col).color = "w" THEN r < from.row ELSE r > from.row}

\* C27: when two or three pieces of the moving piece's type and colour stand
\* on its file, the notation is the position glyph, the piece glyph, the
\* direction and the destination: front for the piece with none of the
\* group before it, rear for the one with none behind it, middle for the
\* one between; the glyph of the source file is not part of it.
C27_FrontMiddleRear ==
    output.kind = "notation" =>
        \A board \in {input.board} : \A from \in {input.move.from} :
        \A group \in {FileGroup(board, from)} : \A ahead \in {AheadOf(board, from)} :
            Cardinality(group) \in {2, 3} =>
                /\ Len(output.value) = 4
                /\ output.value[1] = (IF ahead = {} THEN "qian"
                                      ELSE IF ahead \cup {from.row} = group THEN "hou"
                                      ELSE "zhong")
                /\ output.value[2] = getPieceName(Cell(board, from.row, from.col).type,
                                                  Cell(board, from.row, from.col).color)

\* C27 witness: the black rook on e5 between the black rooks on e7 and e3,
\* with a red rook on e6 among them, moving one row down the board is
\* "middle rook advances 1".
C27_Witness ==
    /\ output.kind = "notation"
    /\ input.move = Move(Square(4, 4), Square(5, 4))
    /\ input.board =
          Place(Place(Place(Place(KingsOn(OffsetPair), Square(4, 4), Piece("b", "r")),
                            Square(2, 4), Piece("b", "r")),
                      Square(6, 4), Piece("b", "r")),
                Square(3, 4), Piece("w", "r"))
    /\ output.value = <<"zhong", "ju", "jin", "1">>

\* the bytes of the stream the handler has been given
Delivered == SubSeq(input.bytes, 1, Len(input.bytes) - Len(procs[1].out))

\* C28: the events emitted for the bytes delivered so far, in whatever
\* chunks, are the events emitted when the same bytes arrive as one chunk.
C28_ChunkIndependent ==
    output.kind = "received" => output.value = OnData(<<>>, Delivered).events

\* the lines of a text that are ended by a newline
CompleteLines(text) ==
    LET parts == Split(text, "\n") IN SubSeq(parts, 1, Len(parts) - 1)

\* the events of the lines, line after line
RECURSIVE LineEvents(_)
LineEvents(lines) ==
    IF lines = <<>> THEN <<>>
    ELSE parseLine(Trim(Head(lines))) \o LineEvents(Tail(lines))

\* C29: the events emitted so far are the events of the complete lines
\* received so far, in the order in which the lines were received.
C29_EventsInLineOrder ==
    output.kind = "received" => output.value = LineEvents(CompleteLines(output.text))

\* C29 witness: uciok and a bestmove line have been received, the bestmove
\* line completed by a later chunk than uciok, and ready was emitted before
\* bestmove.
C29_Witness ==
    /\ output.kind = "received"
    /\ input.bytes = W_uciok \o <<"\n">> \o Chars(W_bestmove, <<"h", "2", "e", "2">>) \o <<"\n">>
    /\ procs[1].out = <<>>
    /\ Len(output.value) = 2
    /\ output.value[1].name = "ready"
    /\ output.value[2].name = "bestmove"
    /\ emitted = <<output.value[2]>>

\* the name of the event of a line and the move it carries: none for a line
\* that is empty or starts with another token
ExpectedOf(line) ==
    LET tokens == Split(Trim(line), " ")
        first  == tokens[1]
    IN  IF first = W_uciok THEN <<[name |-> "ready", move |-> <<>>]>>
        ELSE IF first = W_readyok THEN <<[name |-> "readyok", move |-> <<>>]>>
        ELSE IF first = W_info THEN <<[name |-> "info", move |-> <<>>]>>
        ELSE IF first = W_bestmove THEN <<[name |-> "bestmove", move |-> tokens[2]]>>
        ELSE <<>>

RECURSIVE ExpectedEvents(_)
ExpectedEvents(lines) ==
    IF lines = <<>> THEN <<>>
    ELSE ExpectedOf(Head(lines)) \o ExpectedEvents(Tail(lines))

\* C30: every complete line received has produced no event or one, by its
\* first token: uciok ready, readyok readyok, info info, bestmove bestmove
\* with the second token of the line as the move; a line with another first
\* token, or none, has produced nothing.
C30_EventByFirstToken ==
    output.kind = "received" =>
        [i \in 1..Len(output.value) |->
            [name |-> output.value[i].name,
             move |-> IF output.value[i].name = "bestmove"
                      THEN output.value[i].args[1] ELSE <<>>]]
        = ExpectedEvents(CompleteLines(output.text))

\* C30 witness: of the lines readyok and bestmove (none), both received,
\* the first gave readyok and the second bestmove with the sentinel.
C30_Witness ==
    /\ output.kind = "received"
    /\ input.bytes = W_readyok \o <<"\n">>
                      \o Chars(W_bestmove, <<"(", "n", "o", "n", "e", ")">>) \o <<"\n">>
    /\ procs[1].out = <<>>
    /\ output.value = <<Event("readyok", <<>>),
                        Event("bestmove", <<<<"(", "n", "o", "n", "e", ")">>, Undefined>>)>>

\* s is t with entries dropped from the tail (or t itself)
IsPrefix(s, t) == Len(s) <= Len(t) /\ SubSeq(t, 1, Len(s)) = s

HasKey(fields, key) == \E i \in 1..Len(fields) : fields[i].key = key

\* the last field with the key
LastOf(fields, key) ==
    fields[CHOOSE i \in 1..Len(fields) :
              /\ fields[i].key = key
              /\ \A j \in (i + 1)..Len(fields) : fields[j].key # key]

\* obj[name] of a JavaScript object: undefined when it has no such property
Prop(obj, name) == IF name \in DOMAIN obj THEN obj[name] ELSE NoNum

\* the line was parsed and gave one info event
InfoEmitted ==
    /\ output.kind = "events"
    /\ Len(output.value) = 1
    /\ output.value[1].name = "info"

\* the EngineInfo record of the info event
InfoRecord == output.value[1].args[1]

\* C31: for an info line with depth d, a score of kind cp or mate and value
\* v, multipv n and pv moves, the emitted record carries the depth d, the
\* score tagged by its kind with the value v, the multi-PV rank n and the
\* principal variation.
C31_InfoRecord ==
    (/\ output.kind = "events"
     /\ input.hasPv
     /\ HasKey(input.fields, W_depth)
     /\ HasKey(input.fields, W_score)
     /\ HasKey(input.fields, W_multipv))
        => /\ InfoEmitted
           /\ InfoRecord.depth = Num(LastOf(input.fields, W_depth).val)
           /\ InfoRecord.scoreType = LastOf(input.fields, W_score).tag
           /\ InfoRecord.scoreValue = Num(LastOf(input.fields, W_score).val)
           /\ Prop(InfoRecord, "multipv")
                 = Num(LastOf(input.fields, W_multipv).val)
           /\ InfoRecord.pv = JoinFrom(input.moves, 1, " ")

\* C32: in parsing an info line every token after the pv key belongs to the
\* principal variation, none of them is read as another key, and the depth
\* and the score are those of the keys before pv.
C32_PvConsumesRemainder ==
    (output.kind = "events" /\ input.hasPv)
        => /\ InfoEmitted
           /\ InfoRecord.pv = JoinFrom(input.moves, 1, " ")
           /\ InfoRecord.depth =
                 IF HasKey(input.fields, W_depth)
                 THEN Num(LastOf(input.fields, W_depth).val) ELSE NoNum
           /\ InfoRecord.scoreType =
                 IF HasKey(input.fields, W_score)
                 THEN LastOf(input.fields, W_score).tag ELSE Undefined
           /\ InfoRecord.scoreValue =
                 IF HasKey(input.fields, W_score)
                 THEN Num(LastOf(input.fields, W_score).val) ELSE NoNum

\* C32 witness: a line with a depth and a score before pv, and after pv the
\* tokens depth and 9, was parsed; the depth is the one before pv.
C32_Witness ==
    /\ InfoEmitted
    /\ input.fields = <<InfoField(W_score, W_mate, 3), InfoField(W_depth, <<>>, 12)>>
    /\ input.moves = <<W_depth, <<"9">>>>
    /\ InfoRecord.depth = Num(12)
    /\ InfoRecord.pv = <<"d", "e", "p", "t", "h", " ", "9">>

(***************************************************************************)
(* Restart claims of the engine session.                                   *)
(***************************************************************************)
\* C33: the grace timer armed by quit() can only terminate the child that
\* quit() was called on: when that child has exited and a new child was
\* started before the timer fires, the timer leaves the new child running
\* and the handle on it.
C33_TimerSparesNewProcess ==
    [][\A p \in Pids :
         (/\ call' = <<"timer", p>>
          /\ procs[p].st = "closed"
          /\ process # 0
          /\ process # p)
            => /\ process' = process
               /\ procs'[process].killed = procs[process].killed]_vars

\* C34: a partial line left in the pending buffer when a child exits is
\* never combined with the output of a later child: the events emitted from
\* the output of a child are those of the complete lines of the text that
\* child wrote.
C34_LinesOfOneChild ==
    output.kind = "children"
        => \A p \in Pids :
              output.value[p] = LineEvents(CompleteLines(output.text[p]))

(***************************************************************************)
(* Game-over, turn and history claims of the game controller.              *)
(***************************************************************************)
\* the verdicts that blame the side
Blames(color) ==
    IF color = "w"
    THEN {"Red Lost! (No legal moves)", "Red (AI) Lost! (No legal moves)"}
    ELSE {"Black Lost! (No legal moves)", "Black (AI) Lost! (No legal moves)"}

\* C35: a game-over verdict is declared only from a no-move reply to a
\* search issued for the current position: the reply to a search of an
\* earlier position never sets game over, and the verdict blames the side to
\* move of the searched position.
C35_GameOverFromCurrentSearch ==
    [][(BestMove /\ app.gameOver = NoGameOver /\ app'.gameOver # NoGameOver)
          => /\ engine.searches[1].fen = app.fen
             /\ app'.gameOver \in Blames(parseFen(engine.searches[1].fen).turn)]_vars

\* C36: when validateFen accepts a position and validateMove accepts a move
\* of the side to move on its board, validateFen accepts the position after
\* the move.
C36_ValidityPreserved ==
    (/\ output.kind = "successor"
     /\ output.value.before.valid
     /\ output.value.move.valid)
        => output.value.after.valid

\* C37: every move applied to the position of the game moves a piece whose
\* colour is the side to move, and the side to move of the position after it
\* is the other colour.
C37_MoverIsSideToMove ==
    [][MoveApplied
          => \E from \in {app'.lastMove.from} :
             \E piece \in {Cell(boardState(app).board, from.row, from.col)} :
                /\ piece # Null
                /\ piece.color = boardState(app).turn
                /\ boardState(app').turn = (IF piece.color = "w" THEN "b" ELSE "w")]_vars

\* C37 witness: two moves have been applied, the second of them Black's, the
\* piece it moved is black and Red is to move.
C37_Witness ==
    /\ Len(app.history) = 2
    /\ boardState(app).turn = "w"
    /\ Cell(boardState(app).board, app.lastMove.to.row, app.lastMove.to.col).color = "b"
    /\ parseFen(app.history[2].fen).turn = "b"

\* C38: once game over has been declared, no move of the user or of the
\* engine is applied and no new search is issued until an undo, a restart
\* or a recognition clears the game-over state.
C38_NothingAfterGameOver ==
    [][(app.gameOver # NoGameOver /\ app'.gameOver # NoGameOver)
          => /\ ~MoveApplied
             /\ Len(engine'.searches) <= Len(engine.searches)
             /\ (Len(engine'.searches) = Len(engine.searches) => ~BestMove)]_vars

(***************************************************************************)
(* Simulation claims                                                       *)
(***************************************************************************)

\* C39: the position-snapshot history and the notation history always have
\* the same length, whatever moves, undos, restarts, recognitions and
\* simulation starts and stops were made
C39_HistoriesSameLength == Len(app.history) = Len(app.moveHistory)

\* a simulation that added a move to a game of one move was ended: the
\* histories are back at one entry while the engine still holds the search
\* of the position the simulation reached
C39_Witness ==
    /\ ~app.isSimulationMode
    /\ app.simulationSnapshot = NoSnapshot
    /\ Len(app.history) = 1
    /\ Len(app.moveHistory) = 1
    /\ \E i \in DOMAIN engine.searches :
          /\ engine.searches[i].fen # START_FEN
          /\ parseFen(engine.searches[i].fen).turn = "w"

(***************************************************************************)
(* Watchdog claims                                                         *)
(***************************************************************************)

\* C40: whenever the AI is marked as thinking, the thinking flag is cleared
\* later on, whatever the engine answers or fails to answer
C40_ThinkingCleared == app.isAiThinking ~> ~app.isAiThinking

\* the engine process is gone with the search the AI was thinking about, and
\* the watchdog has cleared the flag
C40_Witness ==
    /\ ~engine.alive
    /\ ~app.isAiThinking
    /\ app.engineStatus = "Ready (Reset after timeout)"
    /\ isCurrentTurnAi(app)

====
